---- MODULE Spec2Model ----
(***************************************************************************)
(* Model of scribble's audio engine (scribble/src/audio.rs): the sample    *)
(* buffer view (Buf), the per-snippet cursor (CursorBuffer), the timeline  *)
(* cursor (Cursor::new, Cursor::mix_to_buffer) and the lock-guarded audio  *)
(* engine (AudioState, audio_thread).                                      *)
(*                                                                         *)
(* Conventions.                                                            *)
(*  - Sequences are 1-based in TLA+; the code's 0-based index k is k+1.    *)
(*  - An f64 speed factor v is held as the integer v * SpeedDen, so the    *)
(*    speeds -2.0, -1.0, -0.5, 0.5, 1.0, 2.0 are -4, -2, -1, 1, 2, 4.      *)
(*  - Times are whole seconds and the sample rate is 1, as in the tests    *)
(*    of audio.rs, so a time is also a sample position.                    *)
(*  - A panic is recorded in `fault`; `debug` is the build profile: with   *)
(*    debug assertions and overflow checks (cargo test, cargo build) or    *)
(*    without them (--release).                                            *)
(***************************************************************************)
EXTENDS Integers, Sequences, FiniteSets, TLC

\* ------------------------------------------------------------------ bounds
MaxBufLen == 3
MaxTime == 5
MaxCalls == 2
MaxSnips == 2
MaxStreams == 2
MaxDeliveries == 4
CallbackLen == 2
MaxEdits == 4
MaxRecLen == 6
MaxTrunc == 2
MaxFrame == 3
MaxPos == 8

\* --------------------------------------------------------------- constants
SpeedDen == 2
I16Min == -32768
I16Max == 32767
TestSampleRate == 1
\* isize::MAX and isize::MIN, with the values of a 32-bit target; the
\* arithmetic of Index<isize> is the same at 64 bits
ISizeMax == 2147483647
ISizeMin == -ISizeMax - 1

Speeds == {-4, -2, -1, 1, 2, 4}
Velocities == {-2, 2}
BufLens == 1..MaxBufLen
Times == 0..MaxTime

\* ----------------------------------------------------------- number helpers
Abs(x) == IF x < 0 THEN -x ELSE x

Max2(a, b) == IF a >= b THEN a ELSE b

Min2(a, b) == IF a <= b THEN a ELSE b

\* f64::floor and f64::ceil of the rational a / b, b > 0
FloorDiv(a, b) == a \div b

CeilDiv(a, b) == -((-a) \div b)

\* `as i16` of a float rounds toward zero: the rational a / b, b > 0
TruncDiv(a, b) == IF a >= 0 THEN a \div b ELSE -((-a) \div b)

\* f64::signum as isize: +0.0 and positive numbers give 1, negative ones -1
SignumF(v) == IF v >= 0 THEN 1 ELSE -1

\* isize::signum
SignumI(x) == IF x > 0 THEN 1 ELSE IF x < 0 THEN -1 ELSE 0

\* two's complement wrap of an integer to i16, the release build's `+=`
Wrap16(x) == ((x - I16Min) % 65536) + I16Min

InI16(x) == x >= I16Min /\ x <= I16Max

\* ------------------------------------------------------------------ catalog
\* AudioSnippetData { buf, start_time }
AudioSnippetData(buf, start_time) == [buf |-> buf, start_time |-> start_time]

\* AudioSnippetsData::default()
EmptyCatalog == [last_id |-> 0, snippets |-> <<>>]

\* AudioSnippetsData::with_new_snippet; the map is held as a function on
\* its keys.
with_new_snippet(self, snip) ==
    LET id == self.last_id + 1
    IN  [last_id |-> id,
         snippets |-> [k \in (DOMAIN self.snippets) \cup {id} |->
                          IF k = id THEN snip ELSE self.snippets[k]]]

HasSnippet(data, id) == id \in DOMAIN data.snippets

\* AudioSnippetsData::snippet (the caller checks HasSnippet: absence is a panic)
snippet(data, id) == data.snippets[id]

\* Diff::as_audio_idx for whole seconds
AsAudioIdx(diff, sample_rate) == diff * sample_rate

\* ------------------------------------------------------------- CursorBuffer
CursorBufferNew(id, snip, time, sample_rate) ==
    [id |-> id,
     start |-> AsAudioIdx(time - snip.start_time, sample_rate),
     len |-> Len(snip.buf)]

is_active(c, from, amount) ==
    IF amount > 0 THEN c.start + from + amount > 0
                  ELSE c.start + from + amount < c.len

is_finished(c, idx, direction) ==
    IF direction >= 0 THEN c.start + idx >= c.len
                      ELSE c.start + idx < 0

is_started(c, idx, direction) ==
    IF direction >= 0 THEN c.start + idx >= 0
                      ELSE c.start + idx < c.len

\* the debug_assert!s at the head of get_buf
GetBufPre(c, from, amount) ==
    IF amount > 0
      THEN c.start + from < c.len /\ c.start + from + amount > 0
      ELSE c.start + from > 0 /\ c.start + from + amount < c.len

\* GetBufRange with the offset of the view left at 0
GetBufRangeNoOffset(c, snipLen, from, amount) ==
    LET s0 == IF amount > 0 THEN c.start + from ELSE c.start + from + amount
        e0 == IF amount > 0 THEN c.start + from + amount ELSE c.start + from
    IN  [offset |-> 0,
         start |-> Max2(s0, 0),
         end |-> IF e0 < 0 THEN snipLen ELSE Min2(e0, snipLen)]

\* get_buf: the slice bounds it computes. `end as usize` of a negative end
\* is a huge number, so min(.., len) gives len.
GetBufRange(c, snipLen, from, amount) ==
    LET s0 == IF amount > 0 THEN c.start + from ELSE c.start + from + amount
        e0 == IF amount > 0 THEN c.start + from + amount ELSE c.start + from
    IN  [offset |-> Max2(-s0, 0),
         start |-> Max2(s0, 0),
         end |-> IF e0 < 0 THEN snipLen ELSE Min2(e0, snipLen)]

\* &snip.buf[start..end] panics unless start <= end <= len
SliceOk(r, snipLen) == r.start <= r.end /\ r.end <= snipLen

\* get_buf with every view handed out as a forward one
get_buf_forward(c, data, from, amount) ==
    LET snip == snippet(data, c.id)
        r == GetBufRange(c, Len(snip.buf), from, amount)
    IN  [inner |-> SubSeq(snip.buf, r.start + 1, r.end),
         offset |-> r.offset,
         len |-> Abs(amount),
         direction |-> 1]

\* get_buf: the view. inner is the slice snip.buf[start..end].
get_buf(c, data, from, amount) ==
    LET snip == snippet(data, c.id)
        r == GetBufRange(c, Len(snip.buf), from, amount)
    IN  [inner |-> SubSeq(snip.buf, r.start + 1, r.end),
         offset |-> r.offset,
         len |-> Abs(amount),
         direction |-> SignumI(amount)]

\* ---------------------------------------------------------------------- Buf
\* Index<isize>: the sign assertion
IndexSignOk(b, idx) == IF b.direction > 0 THEN idx >= 0 ELSE idx <= 0

\* Index<isize>: `(idx - 1).abs()` of a backward view. idx - 1 overflows at
\* isize::MIN and abs at isize::MIN + 1: with overflow checks either panics.
IndexArithOk(b, idx, dbg) == b.direction > 0 \/ ~dbg \/ idx > ISizeMin + 1

\* Index<isize>: a failed checked_sub gives usize::MAX, which is past every
\* slice, so the lookup gives 0. Without overflow checks the subtrahend at
\* isize::MIN and isize::MIN + 1 wraps to a number no view is as long as.
BufIndex(b, idx) ==
    LET sub == Abs(idx - 1)
        hasIdx == b.direction > 0 \/ (idx > ISizeMin + 1 /\ b.len >= sub)
        actual_idx == IF b.direction > 0 THEN idx ELSE b.len - sub
    IN  IF ~hasIdx THEN 0
        ELSE IF actual_idx < b.offset THEN 0
        ELSE IF actual_idx - b.offset < Len(b.inner)
               THEN b.inner[actual_idx - b.offset + 1]
               ELSE 0

\* Index<isize>::index: the value or the panic
index(b, idx, dbg) ==
    IF ~IndexSignOk(b, idx) THEN [value |-> 0, fault |-> "index_sign"]
    ELSE IF ~IndexArithOk(b, idx, dbg) THEN [value |-> 0, fault |-> "overflow"]
    ELSE [value |-> BufIndex(b, idx), fault |-> "none"]

\* interpolated_index at the fractional index num / SpeedDen
InterpSignOk(b, num) ==
    IndexSignOk(b, FloorDiv(num, SpeedDen)) /\ IndexSignOk(b, CeilDiv(num, SpeedDen))

interpolated_index(b, num) ==
    LET idx0 == FloorDiv(num, SpeedDen)
        idx1 == CeilDiv(num, SpeedDen)
        w == num - idx0 * SpeedDen
    IN  TruncDiv(BufIndex(b, idx0) * (SpeedDen - w) + BufIndex(b, idx1) * w, SpeedDen)

\* ------------------------------------------------------------------- Cursor
\* the catalog's keys in ascending order, as BTreeMap::iter visits them
RECURSIVE KeysAscending(_)
KeysAscending(S) ==
    IF S = {} THEN <<>>
    ELSE LET m == CHOOSE x \in S : \A y \in S : x <= y
         IN  <<m>> \o KeysAscending(S \ {m})

\* SortKey with the backward key taken from the start offset alone
SortKeyByStart(c, direction) == IF direction = 1 THEN -c.start ELSE c.start

\* the keys of the two sort_by_key calls in Cursor::new
SortKey(c, direction) == IF direction = 1 THEN -c.start ELSE c.start - c.len

\* sort_by_key is a stable sort: an element goes after every element whose
\* key is not greater than its own
RECURSIVE InsertByKey(_, _, _)
InsertByKey(sorted, c, direction) ==
    IF sorted = <<>> THEN <<c>>
    ELSE IF SortKey(Head(sorted), direction) <= SortKey(c, direction)
           THEN <<Head(sorted)>> \o InsertByKey(Tail(sorted), c, direction)
           ELSE <<c>> \o sorted

RECURSIVE SortByKey(_, _)
SortByKey(cs, direction) ==
    IF cs = <<>> THEN <<>>
    ELSE InsertByKey(SortByKey(SubSeq(cs, 1, Len(cs) - 1), direction),
                     cs[Len(cs)], direction)

\* Partition with next_cursor left at the start of the list
PartitionNextZero(cursors, k, direction, active) ==
    [next_cursor |-> 0,
     active |-> SelectSeq(cursors, LAMBDA c : is_started(c, 0, direction)
                                              /\ ~is_finished(c, 0, direction))]

\* Partition without the assignment to next_cursor at the break
PartitionNoBreak(cursors, k, direction, active) ==
    [next_cursor |-> Len(cursors),
     active |-> SelectSeq(cursors, LAMBDA c : is_started(c, 0, direction)
                                              /\ ~is_finished(c, 0, direction))]

\* Cursor::new, lines 198-209: the loop that seeds the active set and stops
\* at the first cursor that is not started. k is the 1-based loop position.
RECURSIVE Partition(_, _, _, _)
Partition(cursors, k, direction, active) ==
    IF k > Len(cursors) THEN [next_cursor |-> Len(cursors), active |-> active]
    ELSE IF ~is_started(cursors[k], 0, direction)
           THEN [next_cursor |-> k - 1, active |-> active]
           ELSE Partition(cursors, k + 1, direction,
                          IF ~is_finished(cursors[k], 0, direction)
                            THEN Append(active, cursors[k]) ELSE active)

\* Cursor::default()
DefaultCursor ==
    [cur_idx |-> 0, all_cursors |-> <<>>, next_cursor |-> 0, active_cursors |-> <<>>]

\* CursorNew with the cursors left in the order of the catalog
CursorNewUnsorted(snippets, time, sample_rate, velocity) ==
    LET ids == KeysAscending(DOMAIN snippets.snippets)
        cursors == [k \in 1..Len(ids) |->
                        CursorBufferNew(ids[k], snippets.snippets[ids[k]], time, sample_rate)]
        direction == SignumF(velocity)
        p == Partition(cursors, 1, direction, <<>>)
    IN  [cur_idx |-> 0,
         all_cursors |-> cursors,
         next_cursor |-> p.next_cursor,
         active_cursors |-> p.active]

CursorNew(snippets, time, sample_rate, velocity) ==
    LET ids == KeysAscending(DOMAIN snippets.snippets)
        unsorted == [k \in 1..Len(ids) |->
                        CursorBufferNew(ids[k], snippets.snippets[ids[k]], time, sample_rate)]
        direction == SignumF(velocity)
        cursors == SortByKey(unsorted, direction)
        p == Partition(cursors, 1, direction, <<>>)
    IN  [cur_idx |-> 0,
         all_cursors |-> cursors,
         next_cursor |-> p.next_cursor,
         active_cursors |-> p.active]

\* mix_to_buffer, line 227
InputAmount(n, speed_factor) == CeilDiv(n * speed_factor, SpeedDen)

\* mix_to_buffer, lines 230-237: the activation sweep
RECURSIVE Sweep(_, _)
Sweep(self, input_amount) ==
    IF self.next_cursor < Len(self.all_cursors)
       /\ is_active(self.all_cursors[self.next_cursor + 1], self.cur_idx, input_amount)
      THEN Sweep([self EXCEPT
                    !.active_cursors = Append(@, self.all_cursors[self.next_cursor + 1]),
                    !.next_cursor = @ + 1],
                 input_amount)
      ELSE self

\* MixView with the view's samples stored over the buffer's
RECURSIVE MixViewOverwrites(_, _, _, _, _)
MixViewOverwrites(in_buf, buf, i, speed_factor, dbg) ==
    IF i > Len(buf) THEN [buf |-> buf, fault |-> "none"]
    ELSE LET num == (i - 1) * speed_factor
             sum == interpolated_index(in_buf, num)
         IN  IF ~InterpSignOk(in_buf, num) THEN [buf |-> buf, fault |-> "index_sign"]
             ELSE MixViewOverwrites(in_buf, [buf EXCEPT ![i] = sum], i + 1,
                                    speed_factor, dbg)

\* mix_to_buffer, lines 246-249: one view added into the buffer from output
\* index i - 1 on; the first panic ends the call.
RECURSIVE MixView(_, _, _, _, _)
MixView(in_buf, buf, i, speed_factor, dbg) ==
    IF i > Len(buf) THEN [buf |-> buf, fault |-> "none"]
    ELSE LET num == (i - 1) * speed_factor
             sum == buf[i] + interpolated_index(in_buf, num)
         IN  IF ~InterpSignOk(in_buf, num) THEN [buf |-> buf, fault |-> "index_sign"]
             ELSE IF dbg /\ ~InI16(sum) THEN [buf |-> buf, fault |-> "overflow"]
             ELSE MixView(in_buf, [buf EXCEPT ![i] = Wrap16(sum)], i + 1, speed_factor, dbg)

\* mix_to_buffer, lines 240-250: the loop over the active cursors from the
\* k-th on. get_buf checks its debug assertions, looks the snippet up and
\* slices it, in this order.
RECURSIVE MixActive(_, _, _, _, _, _, _)
MixActive(active, k, data, buf, from, speed_factor, dbg) ==
    IF k > Len(active) THEN [buf |-> buf, fault |-> "none"]
    ELSE LET c == active[k]
             amount == InputAmount(Len(buf), speed_factor)
         IN  IF dbg /\ ~GetBufPre(c, from, amount)
               THEN [buf |-> buf, fault |-> "debug_assert"]
             ELSE IF ~HasSnippet(data, c.id)
               THEN [buf |-> buf, fault |-> "no_snippet"]
             ELSE IF ~SliceOk(GetBufRange(c, Len(snippet(data, c.id).buf), from, amount),
                              Len(snippet(data, c.id).buf))
               THEN [buf |-> buf, fault |-> "slice"]
             ELSE LET r == MixView(get_buf(c, data, from, amount), buf, 1, speed_factor, dbg)
                  IN  IF r.fault # "none" THEN r
                      ELSE MixActive(active, k + 1, data, r.buf, from, speed_factor, dbg)

\* mix_to_buffer, lines 251-254: retain the cursors that are not finished
Retire(active, cur_idx, direction) ==
    SelectSeq(active, LAMBDA c : ~is_finished(c, cur_idx, direction))

\* mix_to_buffer. A panic leaves the cursor as the sweep left it.
mix_to_buffer(self, data, buf, speed_factor, dbg) ==
    LET input_amount == InputAmount(Len(buf), speed_factor)
        direction == SignumF(speed_factor)
        swept == Sweep(self, input_amount)
        r == MixActive(swept.active_cursors, 1, data, buf, swept.cur_idx, speed_factor, dbg)
        cur_idx == swept.cur_idx + input_amount
    IN  IF r.fault # "none"
          THEN [cursor |-> swept, buf |-> r.buf, fault |-> r.fault]
          ELSE [cursor |-> [swept EXCEPT
                              !.cur_idx = cur_idx,
                              !.active_cursors = Retire(@, cur_idx, direction)],
                buf |-> r.buf,
                fault |-> "none"]

\* Cursor::is_finished
CursorIsFinished(self) ==
    self.active_cursors = <<>> /\ self.next_cursor = Len(self.all_cursors)

\* vec![0; n]
Zeros(n) == [i \in 1..n |-> 0]

\* -------------------------------------------------------------------- state
VARIABLES
    debug,          \* build profile: TRUE = debug assertions and overflow checks
    bufs,           \* AudioOutput.bufs, the catalog mix_to_buffer reads
    cursor,         \* AudioOutput.cursor
    speed_factor,   \* AudioOutput.speed_factor
    out,            \* the buffer of the last mix_to_buffer call, after the call
    fault,          \* the panic that ended the thread calling mix_to_buffer
    time0,          \* the time given to the last Cursor::new
    velocity0,      \* the velocity given to the last Cursor::new
    ncalls,         \* the number of mix_to_buffer calls made on cursor
    call1,          \* the buffer length and speed of the first of them
    uniform,        \* TRUE while every call had that length and speed
    acc,            \* the buffers of those calls concatenated, while uniform
    pushes,         \* per snippet id: how often it was pushed on active_cursors
    retired,        \* the snippet ids the retire step has removed
    turned,         \* a call's speed had the sign opposite to the construction velocity
    out_id,         \* AudioOutput.id (None is 0)
    in_id,          \* AudioInput.id (None is 0)
    in_buf,         \* AudioInput.buf
    in_lock,        \* who holds the input_data mutex: "free", "ctl" or "rt"
    out_lock,       \* who holds the output_data mutex
    in_poisoned,    \* a thread panicked while it held the input_data mutex
    out_poisoned,   \* a thread panicked while it held the output_data mutex
    streams,        \* the event loop's streams: id -> [kind, state]
    ctl_pc,         \* where the control thread is in its operation
    ctl_stream,     \* the stream the running start_* operation has built
    ctl_args,       \* the arguments of the running operation
    ctl_fault,      \* the panic that ended the control thread
    rt_pc,          \* where the audio thread is in its callback
    rt_stream,      \* the stream id the running callback was invoked with
    rt_buf,         \* the buffer the running callback was invoked with
    handed,         \* the buffer stop_recording last gave to process_audio
    log,            \* the input callbacks in lock order: [id, chunk]
    rec,            \* the recording in progress: its id and its place in log
    handed_rec,     \* the recording handed belongs to, with its end in log
    heap,           \* the Arc<BTreeMap> allocations: address -> map of snippets
    app,            \* data.scribble.audio_snippets: [last_id, snippets (an address)]
    undo_stack,     \* data.undo: the catalog of every state pushed
    undo_pos,       \* the place of the current state in undo_stack
    snap,           \* the catalog clone last handed to the audio engine
    snap_view,      \* the entries and last_id that clone had when handed over
    given,          \* id -> the snippets that were ever added under it
    last_op,        \* the command the application handled last
    fn_call         \* the last call of a function on its own: [fn, args, result]

mixvars == <<debug, bufs, cursor, speed_factor, out, fault, time0, velocity0,
             ncalls, call1, uniform, acc, pushes, retired, turned>>

enginevars == <<out_id, in_id, in_buf, in_lock, out_lock, in_poisoned, out_poisoned,
                streams, ctl_pc, ctl_stream, ctl_args, ctl_fault,
                rt_pc, rt_stream, rt_buf, handed, log, rec, handed_rec>>

appvars == <<heap, app, undo_stack, undo_pos, snap, snap_view, given, last_op>>

fnvars == <<fn_call>>

VARIABLES
    action,             \* data.action, the CurrentAction of the application
    now,                \* data.time(), the current time
    encoder_progress,   \* Root.encoder_progress: None or the channel received from
    encoding_status,    \* data.encoding_status
    chans,              \* per channel, the statuses sent and not yet read
    encoders,           \* the channels whose encoder thread is running
    cmd_queue,          \* the commands submitted and not yet handled
    ui_last             \* the event handled, or the thread step taken, last:
                        \* its name, its key or status, its time or channel

uivars == <<action, now, encoder_progress, encoding_status, chans, encoders,
            cmd_queue, ui_last>>

vars == <<mixvars, enginevars, appvars, fnvars, uivars>>

\* Option<StreamId>::None
None == 0

NoArgs == [data |-> EmptyCatalog, time |-> 0, velocity |-> 0]

NoRec == [id |-> None, from |-> 0, to |-> 0]

\* AudioState::init: AudioInput::default(), AudioOutput::default(), an event
\* loop without streams, both threads between operations
EngineInit ==
    /\ out_id = None
    /\ in_id = None
    /\ in_buf = <<>>
    /\ in_lock = "free"
    /\ out_lock = "free"
    /\ in_poisoned = FALSE
    /\ out_poisoned = FALSE
    /\ streams = <<>>
    /\ ctl_pc = "idle"
    /\ ctl_stream = None
    /\ ctl_args = NoArgs
    /\ ctl_fault = "none"
    /\ rt_pc = "idle"
    /\ rt_stream = None
    /\ rt_buf = <<>>
    /\ handed = <<>>
    /\ log = <<>>
    /\ rec = NoRec
    /\ handed_rec = NoRec

\* CurrentAction::Idle
Idle == [kind |-> "Idle", arg |-> 0]

\* Root::new and AppState at start: no export, nothing going on
UiInit ==
    /\ action = Idle
    /\ now = 0
    /\ encoder_progress = None
    /\ encoding_status = "None"
    /\ chans = <<>>
    /\ encoders = {}
    /\ cmd_queue = <<>>
    /\ ui_last = [ev |-> "init", what |-> "", n |-> 0]

\* no function has been called on its own
NoCall == [fn |-> "none", args |-> <<>>, result |-> <<>>]

\* AppState at start: the empty catalog, whose map is the one allocation, is
\* the only state of the undo history; nothing was handed to the engine
AppInit ==
    /\ heap = << <<>> >>
    /\ app = [last_id |-> 0, snippets |-> 1]
    /\ undo_stack = <<app>>
    /\ undo_pos = 1
    /\ snap = app
    /\ snap_view = EmptyCatalog
    /\ given = [id \in 1..MaxEdits |-> {}]
    /\ last_op = "init"

\* the ids of a sequence of cursors
CursorIds(cs) == {cs[k].id : k \in 1..Len(cs)}

\* how often id occurs in a sequence of cursors
Occurrences(cs, id) == Cardinality({k \in 1..Len(cs) : cs[k].id = id})

\* ------------------------------------------------------- the catalogs tried
SnipChoices ==
    << AudioSnippetData(<<1, 2, 3>>, 0),
       AudioSnippetData(<<1, 2, 3>>, 2),
       AudioSnippetData(<<>>, 1),
       AudioSnippetData(<<32767, -5>>, 1),
       AudioSnippetData(<<7>>, 1) >>

\* the catalog made of the choices in S, added in order by with_new_snippet
RECURSIVE CatalogOf(_, _)
CatalogOf(S, k) ==
    IF k = 0 THEN EmptyCatalog
    ELSE IF k \in S
           THEN with_new_snippet(CatalogOf(S, k - 1), SnipChoices[k])
           ELSE CatalogOf(S, k - 1)

Catalogs ==
    {CatalogOf(S, Len(SnipChoices)) :
        S \in {T \in SUBSET (1..Len(SnipChoices)) : Cardinality(T) <= MaxSnips}}

\* ---------------------------------------------------- the mixer on its own
\* A cursor is constructed over a catalog, as the tests of audio.rs do, and
\* mix_to_buffer is called on it with zeroed buffers.
Init ==
    /\ debug \in BOOLEAN
    /\ bufs \in Catalogs
    /\ time0 \in Times
    /\ velocity0 \in Velocities
    /\ cursor = CursorNew(bufs, time0, TestSampleRate, velocity0)
    /\ speed_factor = velocity0
    /\ out = <<>>
    /\ fault = "none"
    /\ ncalls = 0
    /\ call1 = [n |-> 0, sf |-> 0]
    /\ uniform = TRUE
    /\ acc = <<>>
    /\ pushes = [id \in DOMAIN bufs.snippets |-> Occurrences(cursor.active_cursors, id)]
    /\ retired = {}
    /\ turned = FALSE
    /\ EngineInit
    /\ AppInit
    /\ fn_call = NoCall
    /\ UiInit

\* what one call cursor.mix_to_buffer(&bufs, buf, sf) does to the cursor, the
\* buffer and the calling thread, with the record of the calls kept up
Mixed(buf, sf) ==
    LET r == mix_to_buffer(cursor, bufs, buf, sf, debug)
        swept == Sweep(cursor, InputAmount(Len(buf), sf))
        pushed == SubSeq(swept.active_cursors, Len(cursor.active_cursors) + 1,
                         Len(swept.active_cursors))
    IN  /\ cursor' = r.cursor
        /\ out' = r.buf
        /\ fault' = r.fault
        /\ ncalls' = ncalls + 1
        /\ call1' = IF ncalls = 0 THEN [n |-> Len(buf), sf |-> sf] ELSE call1
        /\ uniform' = (uniform /\ call1' = [n |-> Len(buf), sf |-> sf])
        /\ acc' = IF uniform' THEN acc \o r.buf ELSE <<>>
        /\ pushes' = [id \in DOMAIN pushes |-> pushes[id] + Occurrences(pushed, id)]
        /\ turned' = (turned \/ SignumF(sf) # SignumF(velocity0))
        /\ retired' = retired \cup
                        (CursorIds(swept.active_cursors) \ CursorIds(r.cursor.active_cursors))

\* one mix_to_buffer call with a zeroed buffer of length n; the length is
\* chosen at the first call and kept, the speed is free at every call
MixCall(n, sf) ==
    /\ fault = "none"
    /\ ncalls < MaxCalls
    /\ ncalls > 0 => n = call1.n
    /\ Mixed(Zeros(n), sf)
    /\ speed_factor' = sf
    /\ UNCHANGED <<debug, bufs, time0, velocity0>>
    /\ UNCHANGED enginevars
    /\ UNCHANGED <<appvars, fnvars, uivars>>

Next == \E n \in BufLens, sf \in Speeds : MixCall(n, sf)

Spec == Init /\ [][Next]_vars

\* --------------------------------------------------------- a playback run
\* A cursor is constructed with a velocity and mix_to_buffer is called again
\* and again with that velocity as the speed factor and a zeroed buffer of
\* one length, as audio_thread does until the application stops the stream.
\* The calls go on until the position is MaxPos away from where it began.
InitPlay ==
    /\ debug \in BOOLEAN
    /\ bufs \in Catalogs
    /\ time0 \in Times
    /\ velocity0 \in Speeds
    /\ cursor = CursorNew(bufs, time0, TestSampleRate, velocity0)
    /\ speed_factor = velocity0
    /\ out = <<>>
    /\ fault = "none"
    /\ ncalls = 0
    /\ call1 = [n |-> 0, sf |-> 0]
    /\ uniform = TRUE
    /\ acc = <<>>
    /\ pushes = [id \in DOMAIN bufs.snippets |-> Occurrences(cursor.active_cursors, id)]
    /\ retired = {}
    /\ turned = FALSE
    /\ EngineInit
    /\ AppInit
    /\ fn_call = NoCall
    /\ UiInit

\* one more call of the run; ncalls counts the calls up to MaxCalls and the
\* record of what they pushed and retired is not kept
PlayCall(n) ==
    LET r == mix_to_buffer(cursor, bufs, Zeros(n), velocity0, debug)
    IN  /\ fault = "none"
        /\ Abs(cursor.cur_idx) <= MaxPos
        /\ ncalls > 0 => n = call1.n
        /\ cursor' = r.cursor
        /\ out' = r.buf
        /\ fault' = r.fault
        /\ ncalls' = Min2(ncalls + 1, MaxCalls)
        /\ call1' = IF ncalls = 0 THEN [n |-> n, sf |-> velocity0] ELSE call1
        /\ UNCHANGED <<debug, bufs, speed_factor, time0, velocity0, uniform, acc,
                       pushes, retired, turned>>
        /\ UNCHANGED enginevars
        /\ UNCHANGED <<appvars, fnvars, uivars>>

NextPlay == \E n \in BufLens : PlayCall(n)

SpecPlay == InitPlay /\ [][NextPlay]_vars

\* -------------------------------------------------------------- AudioState
\* The control thread runs the operations of AudioState one at a time; the
\* audio thread runs the callback of audio_thread, one invocation at a time.
\* A mutex is taken in one step and its critical section runs in the next.

\* start_recording_locked with the buffer cleared before the assertion
start_recording_clears_first(id, buf, stream) ==
    IF id # None
      THEN [panic |-> TRUE, id |-> id, buf |-> <<>>]
      ELSE [panic |-> FALSE, id |-> stream, buf |-> <<>>]

\* start_recording, lines 301-305: the critical section
start_recording_locked(id, buf, stream) ==
    IF id # None
      THEN [panic |-> TRUE, id |-> id, buf |-> buf]
      ELSE [panic |-> FALSE, id |-> stream, buf |-> <<>>]

\* stop_recording_locked that returns an empty recording when no stream is
\* installed
stop_recording_tolerant(id, buf) ==
    IF id = None
      THEN [panic |-> FALSE, id |-> None, buf |-> <<>>, destroyed |-> None, taken |-> <<>>]
      ELSE [panic |-> FALSE, id |-> None, buf |-> <<>>, destroyed |-> id, taken |-> buf]

\* stop_recording, lines 314-318: id.take().unwrap(), destroy_stream and the
\* swap of the capture buffer with an empty one
stop_recording_locked(id, buf) ==
    IF id = None
      THEN [panic |-> TRUE, id |-> None, buf |-> buf, destroyed |-> None, taken |-> <<>>]
      ELSE [panic |-> FALSE, id |-> None, buf |-> <<>>, destroyed |-> id, taken |-> buf]

\* start_playing_locked that leaves the cursor of the earlier playback
start_playing_keeps_cursor(o, stream, data, velocity, new_cursor) ==
    IF o.id # None
      THEN [panic |-> TRUE, o |-> o]
      ELSE [panic |-> FALSE,
            o |-> [id |-> stream, bufs |-> data, speed_factor |-> velocity,
                   cursor |-> o.cursor]]

\* start_playing, lines 331-337: the critical section, on the AudioOutput
\* record o
start_playing_locked(o, stream, data, velocity, new_cursor) ==
    IF o.id # None
      THEN [panic |-> TRUE, o |-> o]
      ELSE [panic |-> FALSE,
            o |-> [id |-> stream, bufs |-> data, speed_factor |-> velocity,
                   cursor |-> new_cursor]]

\* set_velocity_locked that also rewinds the cursor
set_velocity_rewinds(o, vel) ==
    [o EXCEPT !.speed_factor = vel, !.cursor.cur_idx = 0]

\* set_velocity, line 291: the critical section, on the AudioOutput record o
set_velocity_locked(o, vel) == [o EXCEPT !.speed_factor = vel]

\* stop_playing, lines 346-348: the id left installed and the stream destroyed
stop_playing_locked(id) ==
    IF id # None THEN [id |-> None, destroyed |-> id]
                 ELSE [id |-> None, destroyed |-> None]

\* input_callback without the stream id guard
input_callback_unguarded(id, buf, stream_id, chunk) == buf \o chunk

\* input_callback that ignores only the chunks of another installed stream
input_callback_unless_other(id, buf, stream_id, chunk) ==
    IF id # None /\ id # stream_id THEN buf ELSE buf \o chunk

\* audio_thread, lines 443-446: the input branch under the lock
input_callback(id, buf, stream_id, chunk) ==
    IF id # stream_id THEN buf ELSE buf \o chunk

\* output_guard that lets every stream through
output_guard_always(id, stream_id) == TRUE

\* audio_thread, lines 429-431: the guard of the output branch
output_guard(id, stream_id) == id = stream_id

\* EventLoop::destroy_stream
Destroy(ss, id) ==
    IF id = None THEN ss ELSE [ss EXCEPT ![id].state = "destroyed"]

\* EventLoop::play_stream
Play(ss, id) ==
    IF ss[id].state = "built" THEN [ss EXCEPT ![id].state = "playing"] ELSE ss

\* the chunks the driver delivers and the catalogs, times and velocities the
\* application plays
\* the k-th chunk the driver delivers holds the one sample 10 + k
Chunk(k) == <<10 + k>>

\* the (catalog, time, velocity) the application plays
PlayArgs ==
    { [data |-> CatalogOf({1}, Len(SnipChoices)), time |-> 0, velocity |-> 2],
      [data |-> CatalogOf({1, 2}, Len(SnipChoices)), time |-> MaxTime, velocity |-> -2] }

\* the velocities the application sets during playback
SetSpeeds == {-2, 4}

\* what the driver's buffer holds when it asks for CallbackLen samples
Stale(n) == [i \in 1..n |-> 9]

CtlRunning == ctl_fault = "none"

\* ---- start_recording
StartRecordingBuild ==
    /\ CtlRunning /\ ctl_pc = "idle"
    /\ Len(streams) < MaxStreams
    /\ streams' = Append(streams, [kind |-> "in", state |-> "built"])
    /\ ctl_stream' = Len(streams) + 1
    /\ ctl_pc' = "sr_want"
    /\ UNCHANGED <<mixvars, out_id, in_id, in_buf, in_lock, out_lock, in_poisoned,
                   out_poisoned, ctl_args, ctl_fault, rt_pc, rt_stream, rt_buf,
                   handed, log, rec, handed_rec>>
    /\ UNCHANGED <<appvars, fnvars, uivars>>

StartRecordingLock ==
    /\ CtlRunning /\ ctl_pc = "sr_want"
    /\ in_lock = "free"
    /\ IF in_poisoned
         THEN ctl_fault' = "poisoned" /\ ctl_pc' = "dead" /\ UNCHANGED in_lock
         ELSE in_lock' = "ctl" /\ ctl_pc' = "sr_locked" /\ UNCHANGED ctl_fault
    /\ UNCHANGED <<mixvars, out_id, in_id, in_buf, out_lock, in_poisoned, out_poisoned,
                   streams, ctl_stream, ctl_args, rt_pc, rt_stream, rt_buf,
                   handed, log, rec, handed_rec>>
    /\ UNCHANGED <<appvars, fnvars, uivars>>

StartRecordingInstall ==
    /\ CtlRunning /\ ctl_pc = "sr_locked"
    /\ LET r == start_recording_locked(in_id, in_buf, ctl_stream)
       IN  /\ in_id' = r.id
           /\ in_buf' = r.buf
           /\ in_lock' = "free"
           /\ in_poisoned' = r.panic
           /\ ctl_fault' = IF r.panic THEN "double_start" ELSE "none"
           /\ ctl_pc' = IF r.panic THEN "dead" ELSE "sr_play"
           /\ rec' = IF r.panic THEN rec
                     ELSE [id |-> ctl_stream, from |-> Len(log), to |-> 0]
    /\ UNCHANGED <<mixvars, out_id, out_lock, out_poisoned, streams, ctl_stream,
                   ctl_args, rt_pc, rt_stream, rt_buf, handed, log, handed_rec>>
    /\ UNCHANGED <<appvars, fnvars, uivars>>

StartRecordingPlay ==
    /\ CtlRunning /\ ctl_pc = "sr_play"
    /\ streams' = Play(streams, ctl_stream)
    /\ ctl_stream' = None
    /\ ctl_pc' = "idle"
    /\ UNCHANGED <<mixvars, out_id, in_id, in_buf, in_lock, out_lock, in_poisoned,
                   out_poisoned, ctl_args, ctl_fault, rt_pc, rt_stream,
                   rt_buf, handed, log, rec, handed_rec>>
    /\ UNCHANGED <<appvars, fnvars, uivars>>

\* ---- stop_recording
StopRecordingLock ==
    /\ CtlRunning /\ ctl_pc = "idle"
    /\ in_lock = "free"
    /\ IF in_poisoned
         THEN ctl_fault' = "poisoned" /\ ctl_pc' = "dead" /\ UNCHANGED in_lock
         ELSE in_lock' = "ctl" /\ ctl_pc' = "xr_locked" /\ UNCHANGED ctl_fault
    /\ UNCHANGED <<mixvars, out_id, in_id, in_buf, out_lock, in_poisoned, out_poisoned,
                   streams, ctl_stream, ctl_args, rt_pc, rt_stream, rt_buf,
                   handed, log, rec, handed_rec>>
    /\ UNCHANGED <<appvars, fnvars, uivars>>

\* the lock stays held: the guard lives to the end of stop_recording
StopRecordingTake ==
    /\ CtlRunning /\ ctl_pc = "xr_locked"
    /\ LET r == stop_recording_locked(in_id, in_buf)
       IN  /\ in_id' = r.id
           /\ in_buf' = r.buf
           /\ streams' = Destroy(streams, r.destroyed)
           /\ in_lock' = IF r.panic THEN "free" ELSE "ctl"
           /\ in_poisoned' = r.panic
           /\ ctl_fault' = IF r.panic THEN "unwrap_none" ELSE "none"
           /\ ctl_pc' = IF r.panic THEN "dead" ELSE "xr_process"
           /\ handed' = IF r.panic THEN handed ELSE r.taken
           /\ handed_rec' = IF r.panic THEN handed_rec
                            ELSE [id |-> r.destroyed, from |-> rec.from, to |-> Len(log)]
    /\ UNCHANGED <<mixvars, out_id, out_lock, out_poisoned, ctl_stream, ctl_args,
                   rt_pc, rt_stream, rt_buf, log, rec>>
    /\ UNCHANGED <<appvars, fnvars, uivars>>

\* StopRecordingReturn that goes on to stop the playback, still holding the
\* input lock
StopRecordingThenStopPlaying ==
    /\ CtlRunning /\ ctl_pc = "xr_process"
    /\ out_lock = "free" /\ ~out_poisoned
    /\ out_lock' = "ctl"
    /\ ctl_pc' = "xp_locked"
    /\ UNCHANGED <<mixvars, out_id, in_id, in_buf, in_lock, in_poisoned, out_poisoned,
                   streams, ctl_stream, ctl_args, ctl_fault, rt_pc, rt_stream, rt_buf,
                   handed, log, rec, handed_rec>>
    /\ UNCHANGED <<appvars, fnvars, uivars>>

\* process_audio(buf) has run and stop_recording returns
StopRecordingReturn ==
    /\ CtlRunning /\ ctl_pc = "xr_process"
    /\ in_lock' = "free"
    /\ ctl_pc' = "idle"
    /\ UNCHANGED <<mixvars, out_id, in_id, in_buf, out_lock, in_poisoned, out_poisoned,
                   streams, ctl_stream, ctl_args, ctl_fault, rt_pc, rt_stream, rt_buf,
                   handed, log, rec, handed_rec>>
    /\ UNCHANGED <<appvars, fnvars, uivars>>


\* ---- start_playing
StartPlayingBuild(args) ==
    /\ CtlRunning /\ ctl_pc = "idle"
    /\ Len(streams) < MaxStreams
    /\ streams' = Append(streams, [kind |-> "out", state |-> "built"])
    /\ ctl_stream' = Len(streams) + 1
    /\ ctl_args' = args
    /\ ctl_pc' = "sp_want"
    /\ UNCHANGED <<mixvars, out_id, in_id, in_buf, in_lock, out_lock, in_poisoned,
                   out_poisoned, ctl_fault, rt_pc, rt_stream, rt_buf,
                   handed, log, rec, handed_rec>>
    /\ UNCHANGED <<appvars, fnvars, uivars>>

StartPlayingLock ==
    /\ CtlRunning /\ ctl_pc = "sp_want"
    /\ out_lock = "free"
    /\ IF out_poisoned
         THEN ctl_fault' = "poisoned" /\ ctl_pc' = "dead" /\ UNCHANGED out_lock
         ELSE out_lock' = "ctl" /\ ctl_pc' = "sp_locked" /\ UNCHANGED ctl_fault
    /\ UNCHANGED <<mixvars, out_id, in_id, in_buf, in_lock, in_poisoned, out_poisoned,
                   streams, ctl_stream, ctl_args, rt_pc, rt_stream, rt_buf,
                   handed, log, rec, handed_rec>>
    /\ UNCHANGED <<appvars, fnvars, uivars>>

StartPlayingInstall ==
    /\ CtlRunning /\ ctl_pc = "sp_locked"
    /\ LET new_cursor == CursorNew(ctl_args.data, ctl_args.time, TestSampleRate,
                                   ctl_args.velocity)
           r == start_playing_locked(
                    [id |-> out_id, bufs |-> bufs, speed_factor |-> speed_factor,
                     cursor |-> cursor],
                    ctl_stream, ctl_args.data, ctl_args.velocity, new_cursor)
       IN  /\ out_id' = r.o.id
           /\ bufs' = r.o.bufs
           /\ speed_factor' = r.o.speed_factor
           /\ cursor' = r.o.cursor
           /\ out_lock' = "free"
           /\ out_poisoned' = r.panic
           /\ ctl_fault' = IF r.panic THEN "double_start" ELSE "none"
           /\ ctl_pc' = IF r.panic THEN "dead" ELSE "sp_play"
           /\ IF r.panic
                THEN UNCHANGED <<time0, velocity0, ncalls, call1, uniform, acc,
                                 pushes, retired, turned>>
                ELSE /\ time0' = ctl_args.time
                     /\ velocity0' = ctl_args.velocity
                     /\ ncalls' = 0
                     /\ call1' = [n |-> 0, sf |-> 0]
                     /\ uniform' = TRUE
                     /\ acc' = <<>>
                     /\ pushes' = [id \in DOMAIN ctl_args.data.snippets |->
                                      Occurrences(new_cursor.active_cursors, id)]
                     /\ retired' = {}
                     /\ turned' = FALSE
    /\ UNCHANGED <<debug, out, fault, in_id, in_buf, in_lock, in_poisoned, streams,
                   ctl_stream, ctl_args, rt_pc, rt_stream, rt_buf,
                   handed, log, rec, handed_rec>>
    /\ UNCHANGED <<appvars, fnvars, uivars>>

StartPlayingPlay ==
    /\ CtlRunning /\ ctl_pc = "sp_play"
    /\ streams' = Play(streams, ctl_stream)
    /\ ctl_stream' = None
    /\ ctl_args' = NoArgs
    /\ ctl_pc' = "idle"
    /\ UNCHANGED <<mixvars, out_id, in_id, in_buf, in_lock, out_lock, in_poisoned,
                   out_poisoned, ctl_fault, rt_pc, rt_stream,
                   rt_buf, handed, log, rec, handed_rec>>
    /\ UNCHANGED <<appvars, fnvars, uivars>>

\* ---- stop_playing
StopPlayingLock ==
    /\ CtlRunning /\ ctl_pc = "idle"
    /\ out_lock = "free"
    /\ IF out_poisoned
         THEN ctl_fault' = "poisoned" /\ ctl_pc' = "dead" /\ UNCHANGED out_lock
         ELSE out_lock' = "ctl" /\ ctl_pc' = "xp_locked" /\ UNCHANGED ctl_fault
    /\ UNCHANGED <<mixvars, out_id, in_id, in_buf, in_lock, in_poisoned, out_poisoned,
                   streams, ctl_stream, ctl_args, rt_pc, rt_stream, rt_buf,
                   handed, log, rec, handed_rec>>
    /\ UNCHANGED <<appvars, fnvars, uivars>>

StopPlayingBody ==
    /\ CtlRunning /\ ctl_pc = "xp_locked"
    /\ LET r == stop_playing_locked(out_id)
       IN  /\ out_id' = r.id
           /\ streams' = Destroy(streams, r.destroyed)
    /\ out_lock' = "free"
    /\ ctl_pc' = "idle"
    /\ UNCHANGED <<mixvars, in_id, in_buf, in_lock, in_poisoned, out_poisoned,
                   ctl_stream, ctl_args, ctl_fault, rt_pc, rt_stream, rt_buf,
                   handed, log, rec, handed_rec>>
    /\ UNCHANGED <<appvars, fnvars, uivars>>

\* ---- set_velocity
SetVelocityLock(vel) ==
    /\ CtlRunning /\ ctl_pc = "idle"
    /\ out_lock = "free"
    /\ IF out_poisoned
         THEN /\ ctl_fault' = "poisoned" /\ ctl_pc' = "dead"
              /\ UNCHANGED <<out_lock, ctl_args>>
         ELSE /\ out_lock' = "ctl" /\ ctl_pc' = "sv_locked"
              /\ ctl_args' = [ctl_args EXCEPT !.velocity = vel]
              /\ UNCHANGED ctl_fault
    /\ UNCHANGED <<mixvars, out_id, in_id, in_buf, in_lock, in_poisoned, out_poisoned,
                   streams, ctl_stream, rt_pc, rt_stream, rt_buf,
                   handed, log, rec, handed_rec>>
    /\ UNCHANGED <<appvars, fnvars, uivars>>

SetVelocityBody ==
    /\ CtlRunning /\ ctl_pc = "sv_locked"
    /\ LET o == set_velocity_locked(
                    [id |-> out_id, bufs |-> bufs, speed_factor |-> speed_factor,
                     cursor |-> cursor],
                    ctl_args.velocity)
       IN  /\ out_id' = o.id
           /\ bufs' = o.bufs
           /\ speed_factor' = o.speed_factor
           /\ cursor' = o.cursor
    /\ out_lock' = "free"
    /\ ctl_args' = NoArgs
    /\ ctl_pc' = "idle"
    /\ UNCHANGED <<debug, out, fault, time0, velocity0, ncalls, call1,
                   uniform, acc, pushes, retired, turned>>
    /\ UNCHANGED <<in_id, in_buf, in_lock, in_poisoned, out_poisoned, streams,
                   ctl_stream, ctl_fault, rt_pc, rt_stream, rt_buf,
                   handed, log, rec, handed_rec>>
    /\ UNCHANGED <<appvars, fnvars, uivars>>

\* ---- audio_thread
RtRunning == fault = "none"

\* the event loop invokes the callback for a playing stream: with a chunk of
\* samples for an input stream, with a buffer to fill for an output stream
DriverInvoke(id) ==
    /\ RtRunning /\ rt_pc = "idle"
    /\ id \in DOMAIN streams /\ streams[id].state = "playing"
    /\ IF streams[id].kind = "in"
         THEN /\ Len(log) < MaxDeliveries
              /\ rt_buf' = Chunk(Len(log) + 1)
              /\ rt_pc' = "in_want"
         ELSE /\ ncalls < MaxCalls
              /\ rt_buf' = Stale(CallbackLen)
              /\ rt_pc' = "out_want"
    /\ rt_stream' = id
    /\ UNCHANGED <<mixvars, out_id, in_id, in_buf, in_lock, out_lock, in_poisoned,
                   out_poisoned, streams, ctl_pc, ctl_stream, ctl_args, ctl_fault,
                   handed, log, rec, handed_rec>>
    /\ UNCHANGED <<appvars, fnvars, uivars>>

InputCallbackLock ==
    /\ RtRunning /\ rt_pc = "in_want"
    /\ in_lock = "free"
    /\ IF in_poisoned
         THEN fault' = "poisoned" /\ rt_pc' = "dead" /\ UNCHANGED in_lock
         ELSE in_lock' = "rt" /\ rt_pc' = "in_locked" /\ UNCHANGED fault
    /\ UNCHANGED <<debug, bufs, cursor, speed_factor, out, time0, velocity0, ncalls,
                   call1, uniform, acc, pushes, retired, turned>>
    /\ UNCHANGED <<out_id, in_id, in_buf, out_lock, in_poisoned, out_poisoned, streams,
                   ctl_pc, ctl_stream, ctl_args, ctl_fault, rt_stream, rt_buf,
                   handed, log, rec, handed_rec>>
    /\ UNCHANGED <<appvars, fnvars, uivars>>

InputCallbackBody ==
    /\ RtRunning /\ rt_pc = "in_locked"
    /\ in_buf' = input_callback(in_id, in_buf, rt_stream, rt_buf)
    /\ log' = Append(log, [id |-> rt_stream, chunk |-> rt_buf])
    /\ in_lock' = "free"
    /\ rt_stream' = None
    /\ rt_buf' = <<>>
    /\ rt_pc' = "idle"
    /\ UNCHANGED <<mixvars, out_id, in_id, out_lock, in_poisoned, out_poisoned, streams,
                   ctl_pc, ctl_stream, ctl_args, ctl_fault, handed, rec, handed_rec>>
    /\ UNCHANGED <<appvars, fnvars, uivars>>

OutputCallbackLock ==
    /\ RtRunning /\ rt_pc = "out_want"
    /\ out_lock = "free"
    /\ IF out_poisoned
         THEN fault' = "poisoned" /\ rt_pc' = "dead" /\ UNCHANGED out_lock
         ELSE out_lock' = "rt" /\ rt_pc' = "out_locked" /\ UNCHANGED fault
    /\ UNCHANGED <<debug, bufs, cursor, speed_factor, out, time0, velocity0, ncalls,
                   call1, uniform, acc, pushes, retired, turned>>
    /\ UNCHANGED <<out_id, in_id, in_buf, in_lock, in_poisoned, out_poisoned, streams,
                   ctl_pc, ctl_stream, ctl_args, ctl_fault, rt_stream, rt_buf,
                   handed, log, rec, handed_rec>>
    /\ UNCHANGED <<appvars, fnvars, uivars>>

\* lines 429-437: a callback of another stream returns at once; the installed
\* one zeroes the buffer and mixes into it. A panic in mix_to_buffer poisons
\* the mutex and ends the audio thread. out is the buffer as the callback
\* leaves it to the driver.
OutputCallbackBody ==
    /\ RtRunning /\ rt_pc = "out_locked"
    /\ IF output_guard(out_id, rt_stream)
         THEN /\ Mixed(Zeros(Len(rt_buf)), speed_factor)
              /\ out_poisoned' = (fault' # "none")
              /\ rt_pc' = IF fault' # "none" THEN "dead" ELSE "idle"
         ELSE /\ out' = rt_buf
              /\ rt_pc' = "idle"
              /\ UNCHANGED <<cursor, fault, ncalls, call1, uniform, acc, pushes,
                             retired, turned, out_poisoned>>
    /\ out_lock' = "free"
    /\ rt_stream' = None
    /\ rt_buf' = <<>>
    /\ UNCHANGED <<debug, bufs, speed_factor, time0, velocity0>>
    /\ UNCHANGED <<out_id, in_id, in_buf, in_lock, in_poisoned, streams,
                   ctl_pc, ctl_stream, ctl_args, ctl_fault,
                   handed, log, rec, handed_rec>>
    /\ UNCHANGED <<appvars, fnvars, uivars>>

InitAudio ==
    /\ debug \in BOOLEAN
    /\ bufs = EmptyCatalog
    /\ cursor = DefaultCursor
    /\ speed_factor = 0
    /\ out = <<>>
    /\ fault = "none"
    /\ time0 = 0
    /\ velocity0 = 0
    /\ ncalls = 0
    /\ call1 = [n |-> 0, sf |-> 0]
    /\ uniform = TRUE
    /\ acc = <<>>
    /\ pushes = <<>>
    /\ retired = {}
    /\ turned = FALSE
    /\ EngineInit
    /\ AppInit
    /\ fn_call = NoCall
    /\ UiInit

NextAudio ==
    \/ StartRecordingBuild
    \/ StartRecordingLock
    \/ StartRecordingInstall
    \/ StartRecordingPlay
    \/ StopRecordingLock
    \/ StopRecordingTake
    \/ StopRecordingReturn
    \/ \E args \in PlayArgs : StartPlayingBuild(args)
    \/ StartPlayingLock
    \/ StartPlayingInstall
    \/ StartPlayingPlay
    \/ StopPlayingLock
    \/ StopPlayingBody
    \/ \E vel \in SetSpeeds : SetVelocityLock(vel)
    \/ SetVelocityBody
    \/ \E id \in 1..MaxStreams : DriverInvoke(id)
    \/ InputCallbackLock
    \/ InputCallbackBody
    \/ OutputCallbackLock
    \/ OutputCallbackBody

SpecAudio == InitAudio /\ [][NextAudio]_vars

\* ------------------------------------------------- the application's catalog
\* The application holds the audio catalog in data.scribble.audio_snippets
\* and replaces it on ADD_AUDIO_SNIPPET, DELETE_SNIPPET, UNDO and REDO
\* (Root::handle_command). AudioSnippetsData holds its map in an Arc, so a
\* catalog value is a last_id and the address of a map in `heap`; a clone
\* shares the address.

\* the entries and last_id a catalog value stands for in heap h
Deref(h, c) == [last_id |-> c.last_id, snippets |-> h[c.snippets]]

\* with_new_snippet_arc that inserts into the shared map
with_new_snippet_in_place(h, self, snip) ==
    LET v == with_new_snippet(Deref(h, self), snip)
    IN  [heap |-> [h EXCEPT ![self.snippets] = v.snippets],
         ret |-> [last_id |-> v.last_id, snippets |-> self.snippets]]

\* AudioSnippetsData::with_new_snippet on the Arc: self.clone() shares the
\* map, snippets.deref().clone() copies it, the copy gets the entry and
\* Arc::new(map) is a new allocation
with_new_snippet_arc(h, self, snip) ==
    LET v == with_new_snippet(Deref(h, self), snip)
    IN  [heap |-> Append(h, v.snippets),
         ret |-> [last_id |-> v.last_id, snippets |-> Len(h) + 1]]

\* AudioSnippetsData::without_snippet: a new map without the entry of id,
\* last_id kept
without_snippet_arc(h, self, id) ==
    LET m == h[self.snippets]
    IN  [heap |-> Append(h, [k \in (DOMAIN m) \ {id} |-> m[k]]),
         ret |-> [last_id |-> self.last_id, snippets |-> Len(h) + 1]]

\* UndoState::push: the states after the current one are dropped and the new
\* state becomes the current one
UndoPush(stack, pos, state) ==
    [stack |-> Append(SubSeq(stack, 1, pos), state), pos |-> pos + 1]

\* UndoState::undo: the state before the current one, if there is one
UndoUndo(stack, pos) ==
    IF pos > 1 THEN [some |-> TRUE, state |-> stack[pos - 1], pos |-> pos - 1]
               ELSE [some |-> FALSE, state |-> stack[pos], pos |-> pos]

\* UndoState::redo: the state after the current one, if there is one
UndoRedo(stack, pos) ==
    IF pos < Len(stack) THEN [some |-> TRUE, state |-> stack[pos + 1], pos |-> pos + 1]
                        ELSE [some |-> FALSE, state |-> stack[pos], pos |-> pos]

\* the snippet the post-processed recording number k makes
Recording(k) == AudioSnippetData(<<k>>, 0)

AppRunning == Len(heap) <= MaxEdits

\* ADD_AUDIO_SNIPPET, root.rs lines 238-246
AddAudioSnippet ==
    /\ AppRunning
    /\ LET snip == Recording(Len(heap))
           r == with_new_snippet_arc(heap, app, snip)
           u == UndoPush(undo_stack, undo_pos, r.ret)
       IN  /\ heap' = r.heap
           /\ app' = r.ret
           /\ undo_stack' = u.stack
           /\ undo_pos' = u.pos
           /\ given' = [given EXCEPT ![r.ret.last_id] = @ \cup {snip}]
    /\ last_op' = "add"
    /\ UNCHANGED <<snap, snap_view>>
    /\ UNCHANGED <<mixvars, enginevars, fnvars, uivars>>

\* DELETE_SNIPPET with an audio snippet id, root.rs lines 221-232
DeleteAudioSnippet(id) ==
    /\ AppRunning
    /\ id \in DOMAIN heap[app.snippets]
    /\ LET r == without_snippet_arc(heap, app, id)
           u == UndoPush(undo_stack, undo_pos, r.ret)
       IN  /\ heap' = r.heap
           /\ app' = r.ret
           /\ undo_stack' = u.stack
           /\ undo_pos' = u.pos
    /\ last_op' = "delete"
    /\ UNCHANGED <<snap, snap_view, given>>
    /\ UNCHANGED <<mixvars, enginevars, fnvars, uivars>>

\* UNDO, root.rs lines 312-331: data.scribble = undone_state, if there is one
Undo ==
    /\ LET u == UndoUndo(undo_stack, undo_pos)
       IN  /\ u.some
           /\ app' = u.state
           /\ undo_pos' = u.pos
    /\ last_op' = "undo"
    /\ UNCHANGED <<heap, undo_stack, snap, snap_view, given>>
    /\ UNCHANGED <<mixvars, enginevars, fnvars, uivars>>

\* REDO, root.rs lines 333-339: data.scribble = redone_state, if there is one
Redo ==
    /\ LET u == UndoRedo(undo_stack, undo_pos)
       IN  /\ u.some
           /\ app' = u.state
           /\ undo_pos' = u.pos
    /\ last_op' = "redo"
    /\ UNCHANGED <<heap, undo_stack, snap, snap_view, given>>
    /\ UNCHANGED <<mixvars, enginevars, fnvars, uivars>>

\* the times and velocities the application starts playback with
PlayTimes == {0, 1}

\* PLAY: the application hands a clone of its catalog to start_playing, which
\* builds the cursor over it and installs the clone, the velocity and the
\* cursor together (audio.rs lines 324-335)
HandToEngine(time, velocity) ==
    /\ snap' = app
    /\ snap_view' = Deref(heap, app)
    /\ cursor' = CursorNew(Deref(heap, app), time, TestSampleRate, velocity)
    /\ speed_factor' = velocity
    /\ out' = <<>>
    /\ fault' = "none"
    /\ last_op' = "play"
    /\ UNCHANGED <<heap, app, undo_stack, undo_pos, given>>
    /\ UNCHANGED <<debug, bufs, time0, velocity0, ncalls, call1, uniform, acc,
                   pushes, retired, turned>>
    /\ UNCHANGED <<enginevars, fnvars, uivars>>

\* AppMix reading the application's catalog of the moment
AppMixFromApp ==
    LET r == mix_to_buffer(cursor, Deref(heap, app), Zeros(CallbackLen),
                           speed_factor, debug)
    IN  /\ last_op # "init"
        /\ fault = "none"
        /\ ~CursorIsFinished(cursor)
        /\ cursor' = r.cursor
        /\ out' = r.buf
        /\ fault' = r.fault
        /\ last_op' = "mix"
        /\ UNCHANGED <<heap, app, undo_stack, undo_pos, snap, snap_view, given>>
        /\ UNCHANGED <<debug, bufs, speed_factor, time0, velocity0, ncalls, call1,
                       uniform, acc, pushes, retired, turned>>
        /\ UNCHANGED <<enginevars, fnvars, uivars>>

\* an output callback of the playback: the installed cursor mixes from the
\* installed clone into the zeroed buffer (audio.rs lines 432-437). The
\* callbacks of a finished cursor read no snippet and are left out.
AppMix ==
    LET r == mix_to_buffer(cursor, Deref(heap, snap), Zeros(CallbackLen),
                           speed_factor, debug)
    IN  /\ last_op # "init"
        /\ fault = "none"
        /\ ~CursorIsFinished(cursor)
        /\ cursor' = r.cursor
        /\ out' = r.buf
        /\ fault' = r.fault
        /\ last_op' = "mix"
        /\ UNCHANGED <<heap, app, undo_stack, undo_pos, snap, snap_view, given>>
        /\ UNCHANGED <<debug, bufs, speed_factor, time0, velocity0, ncalls, call1,
                       uniform, acc, pushes, retired, turned>>
        /\ UNCHANGED <<enginevars, fnvars, uivars>>

InitApp == InitAudio

NextApp ==
    \/ AddAudioSnippet
    \/ \E id \in 1..MaxEdits : DeleteAudioSnippet(id)
    \/ Undo
    \/ Redo
    \/ \E time \in PlayTimes, velocity \in Velocities : HandToEngine(time, velocity)
    \/ AppMix

SpecApp == InitApp /\ [][NextApp]_vars

\* ------------------------------------------------------ functions on their own
\* process_audio, Index<isize> for Buf and CursorBuffer::is_active are called
\* with arguments drawn from bounded sets. The truncation length in samples
\* (TRUNCATION_LEN at SAMPLE_RATE: 4800) and the frame size of the denoiser
\* (rnnoise_c::FRAME_SIZE) are arguments here, drawn from small values.

\* `x as i16` of a float: towards zero, saturating (the values here are whole)
AsI16(x) == IF x > I16Max THEN I16Max ELSE IF x < I16Min THEN I16Min ELSE x

\* DenoiseState::process_frame_mut, the external denoiser: one frame in, one
\* frame of the same size out
process_frame_mut(in_chunk) == [i \in 1..Len(in_chunk) |-> in_chunk[i] * 2]

\* the frames of process_audio's loop, lines 481-483: chunks_exact(fs)
RECURSIVE DenoiseChunks(_, _)
DenoiseChunks(float_buf, fs) ==
    IF Len(float_buf) < fs THEN <<>>
    ELSE process_frame_mut(SubSeq(float_buf, 1, fs))
         \o DenoiseChunks(SubSeq(float_buf, fs + 1, Len(float_buf)), fs)

\* process_audio that rejects by the length left after the trailing cut
process_audio_reject_late(buf, trunc_samples, fs) ==
    IF Len(buf) - trunc_samples <= 2 * trunc_samples
      THEN [out |-> <<>>, fed |-> <<>>, denoised |-> FALSE]
      ELSE LET muted == [i \in 1..Len(buf) |-> IF i <= trunc_samples THEN 0 ELSE buf[i]]
               buf_end == Len(buf) - trunc_samples
               float_buf == SubSeq(muted, 1, buf_end)
               new_size == ((buf_end + (fs - 1)) \div fs) * fs
               resized == float_buf \o [i \in 1..(new_size - buf_end) |-> 0]
               out_buf == DenoiseChunks(resized, fs)
           IN  [out |-> [i \in 1..Len(out_buf) |-> AsI16(out_buf[i])],
                fed |-> resized, denoised |-> TRUE]

\* process_audio that cuts the leading part instead of muting it
process_audio_cuts_lead(buf, trunc_samples, fs) ==
    IF Len(buf) <= 2 * trunc_samples
      THEN [out |-> <<>>, fed |-> <<>>, denoised |-> FALSE]
      ELSE LET buf_end == Len(buf) - trunc_samples
               float_buf == SubSeq(buf, trunc_samples + 1, buf_end)
               new_size == ((Len(float_buf) + (fs - 1)) \div fs) * fs
               resized == float_buf \o [i \in 1..(new_size - Len(float_buf)) |-> 0]
               out_buf == DenoiseChunks(resized, fs)
           IN  [out |-> [i \in 1..Len(out_buf) |-> AsI16(out_buf[i])],
                fed |-> resized, denoised |-> TRUE]

\* process_audio, lines 459-485: out is the buffer returned, fed the buffer
\* given to the denoiser frame by frame
process_audio(buf, trunc_samples, fs) ==
    IF Len(buf) <= 2 * trunc_samples
      THEN [out |-> <<>>, fed |-> <<>>, denoised |-> FALSE]
      ELSE LET muted == [i \in 1..Len(buf) |-> IF i <= trunc_samples THEN 0 ELSE buf[i]]
               buf_end == Len(buf) - trunc_samples
               float_buf == SubSeq(muted, 1, buf_end)
               new_size == ((buf_end + (fs - 1)) \div fs) * fs
               resized == float_buf \o [i \in 1..(new_size - buf_end) |-> 0]
               out_buf == DenoiseChunks(resized, fs)
           IN  [out |-> [i \in 1..Len(out_buf) |-> AsI16(out_buf[i])],
                fed |-> resized, denoised |-> TRUE]

\* the samples a recording is made of
RecSamples == {-3, 7}

\* the recordings of length n
Recordings(n) == [1..n -> RecSamples]

\* each run makes one call
FnReady == fn_call = NoCall

CallProcessAudio(buf, trunc_samples, fs) ==
    /\ FnReady
    /\ fn_call' = [fn |-> "process_audio",
                   args |-> [buf |-> buf, trunc_samples |-> trunc_samples, fs |-> fs],
                   result |-> process_audio(buf, trunc_samples, fs)]
    /\ UNCHANGED <<mixvars, enginevars, appvars, uivars>>

\* CursorBuffer::is_active called on a cursor buffer of its own
CallIsActive(start, len, from, amount) ==
    /\ FnReady
    /\ fn_call' = [fn |-> "is_active",
                   args |-> [c |-> [id |-> 1, start |-> start, len |-> len],
                             from |-> from, amount |-> amount],
                   result |-> is_active([id |-> 1, start |-> start, len |-> len],
                                        from, amount)]
    /\ UNCHANGED <<mixvars, enginevars, appvars, uivars>>

\* what the caller's buffer holds before a mix_to_buffer call
PriorSamples == {5, -9}

Priors(n) == [1..n -> PriorSamples]

\* Cursor::new over a catalog and one mix_to_buffer call on a buffer that
\* has not been zeroed
CallMixToBuffer(data, time, velocity, buf, sf) ==
    LET self == CursorNew(data, time, TestSampleRate, velocity)
    IN  /\ FnReady
        /\ fn_call' = [fn |-> "mix_to_buffer",
                       args |-> [self |-> self, data |-> data, buf |-> buf,
                                 speed_factor |-> sf],
                       result |-> mix_to_buffer(self, data, buf, sf, debug)]
        /\ UNCHANGED <<mixvars, enginevars, appvars, uivars>>

\* the indices a view is read at: around the window, and the ends of isize
IndexChoices ==
    (-(MaxBufLen + 2)..(MaxBufLen + 2)) \cup {ISizeMin, ISizeMin + 1, ISizeMax}

\* the view get_buf gives for the k-th snippet choice, read at idx
CallBufIndex(k, time, from, amount, idx) ==
    LET data == CatalogOf({k}, Len(SnipChoices))
        c == CursorBufferNew(1, snippet(data, 1), time, TestSampleRate)
        b == get_buf(c, data, from, amount)
    IN  /\ FnReady
        /\ SliceOk(GetBufRange(c, c.len, from, amount), c.len)
        /\ fn_call' = [fn |-> "index",
                       args |-> [b |-> b, idx |-> idx],
                       result |-> index(b, idx, debug)]
        /\ UNCHANGED <<mixvars, enginevars, appvars, uivars>>

InitFn == InitAudio

NextFn ==
    \/ /\ FnReady
       /\ \E n \in 0..MaxRecLen, trunc_samples \in 1..MaxTrunc, fs \in 1..MaxFrame :
             \E buf \in Recordings(n) : CallProcessAudio(buf, trunc_samples, fs)
    \/ /\ FnReady
       /\ \E start \in -MaxTime..MaxTime, len \in 0..MaxBufLen,
             from \in -MaxTime..MaxTime, amount \in (-MaxBufLen..MaxBufLen) \ {0} :
             CallIsActive(start, len, from, amount)
    \/ /\ FnReady
       /\ \E data \in Catalogs, time \in Times, velocity \in Velocities,
             n \in BufLens, sf \in Speeds :
             \E buf \in Priors(n) : CallMixToBuffer(data, time, velocity, buf, sf)
    \/ /\ FnReady
       /\ \E k \in 1..Len(SnipChoices), time \in Times, from \in -MaxBufLen..0,
             amount \in (-MaxBufLen..MaxBufLen) \ {0}, idx \in IndexChoices :
             CallBufIndex(k, time, from, amount, idx)

SpecFn == InitFn /\ [][NextFn]_vars

\* ------------------------------------------------------------- the root widget
\* Root (widgets/root.rs) handles the key events, the commands and the timer
\* of the window. data.action is the CurrentAction; the AppState methods the
\* handlers call set it. An export runs in a thread of its own and reports
\* through a channel that the timer reads.

\* the exports started in a run, and the statuses a channel holds unread
MaxExports == 2
MaxBacklog == 1

\* the values of CurrentAction
Scanning(speed) == [kind |-> "Scanning", arg |-> speed]
Playing == [kind |-> "Playing", arg |-> 0]
WaitingToRecord(speed) == [kind |-> "WaitingToRecord", arg |-> speed]
DrawRecording(speed) == [kind |-> "Recording", arg |-> speed]
RecordingAudio(time) == [kind |-> "RecordingAudio", arg |-> time]

\* CurrentAction::is_idle and is_scanning
is_idle(a) == a.kind = "Idle"
is_scanning(a) == a.kind = "Scanning"

\* The AppState methods the handlers call are in data.rs: the action each
\* leaves is taken from its name and from the arms of STOP (lines 364-380).
scan(velocity) == Scanning(velocity)
stop_scanning == Idle
start_playing == Playing
stop_playing == Idle
start_recording(speed) == WaitingToRecord(speed)
start_recording_audio(time) == RecordingAudio(time)
stop_recording_action == Idle

\* the keys of a key event: the two arrows and one other key
Arrows == {"ArrowRight", "ArrowLeft"}
Keys == Arrows \cup {"Space"}

\* the times the application is warped to and the timer moves to
UiTimes == PlayTimes

\* data.recording_speed.factor(): normal speed
RecordingSpeed == SpeedDen

\* what the input stream captured during an audio recording: nothing, too
\* little for process_audio to keep, or enough
UiCaptures == {[i \in 1..n |-> 7] : n \in {0, 2 * MaxTrunc, MaxRecLen}}

\* AppState::stop_recording_audio: the post-processed capture (audio.rs
\* line 320) as a snippet. Where on the timeline the snippet starts plays no
\* part in what the root widget does with it and is left at 0.
stop_recording_audio(captured) ==
    AudioSnippetData(process_audio(captured, MaxTrunc, MaxFrame).out, 0)

\* there is room for one more recording in the run
UiRoom == app.last_id + Len(cmd_queue) < MaxSnips

\* the parts of the state a handler of the action leaves alone
UiActionFrame ==
    /\ UNCHANGED <<encoder_progress, encoding_status, chans, encoders>>
    /\ UNCHANGED <<mixvars, enginevars, appvars, fnvars>>

\* handle_key_down that goes on to the arrow keys after the scanning guard
handle_key_down_no_return(a, key, shift) ==
    LET direction == IF a.arg > 0 THEN "ArrowRight" ELSE "ArrowLeft"
        guarded == IF is_scanning(a) /\ key # direction THEN stop_scanning ELSE a
        speed == IF shift THEN 2 ELSE 1
        dir == IF key = "ArrowRight" THEN 1 ELSE -1
        velocity == speed * dir * SpeedDen
    IN  IF key \in Arrows
          THEN IF is_idle(guarded) \/ is_scanning(guarded)
                 THEN scan(velocity) ELSE guarded
          ELSE guarded

\* Root::handle_key_down, lines 133-172: the action after the key-down.
\* While scanning, a key other than the arrow of the scan's direction stops
\* the scan (stop_scanning makes the action Idle) and an arrow returns.
handle_key_down(a, key, shift) ==
    LET direction == IF a.arg > 0 THEN "ArrowRight" ELSE "ArrowLeft"
        guarded == IF is_scanning(a) /\ key # direction THEN stop_scanning ELSE a
        returned == is_scanning(a) /\ key \in Arrows
        speed == IF shift THEN 2 ELSE 1
        dir == IF key = "ArrowRight" THEN 1 ELSE -1
        velocity == speed * dir * SpeedDen
    IN  IF returned THEN guarded
        ELSE IF key \in Arrows
          THEN IF is_idle(guarded) \/ is_scanning(guarded)
                 THEN scan(velocity) ELSE guarded
          ELSE guarded

\* Root::handle_key_up, lines 174-190: releasing an arrow stops a scan
handle_key_up(a, key) ==
    IF key \in Arrows /\ is_scanning(a) THEN stop_scanning ELSE a

\* Event::KeyDown
KeyDown(key, shift) ==
    /\ action' = handle_key_down(action, key, shift)
    /\ ui_last' = [ev |-> "KeyDown", what |-> key, n |-> 0]
    /\ UNCHANGED <<now, cmd_queue>>
    /\ UiActionFrame

\* Event::KeyUp
KeyUp(key) ==
    /\ action' = handle_key_up(action, key)
    /\ ui_last' = [ev |-> "KeyUp", what |-> key, n |-> 0]
    /\ UNCHANGED <<now, cmd_queue>>
    /\ UiActionFrame

\* PLAY that starts playback whatever the action
play_unguarded(a) == start_playing

\* PLAY, lines 340-347: start_playing makes the action Playing
play(a) == IF is_idle(a) THEN start_playing ELSE a

CmdPlay ==
    /\ action' = play(action)
    /\ ui_last' = [ev |-> "PLAY", what |-> "", n |-> 0]
    /\ UNCHANGED <<now, cmd_queue>>
    /\ UiActionFrame

\* DRAW, lines 348-355: start_recording waits for the pen
CmdDraw ==
    /\ is_idle(action) => UiRoom
    /\ action' = IF is_idle(action) THEN start_recording(RecordingSpeed) ELSE action
    /\ ui_last' = [ev |-> "DRAW", what |-> "", n |-> 0]
    /\ UNCHANGED <<now, cmd_queue>>
    /\ UiActionFrame

\* the pen goes down on the drawing pane: the recording starts
PenDown ==
    /\ action.kind = "WaitingToRecord"
    /\ action' = DrawRecording(action.arg)
    /\ ui_last' = [ev |-> "PenDown", what |-> "", n |-> 0]
    /\ UNCHANGED <<now, cmd_queue>>
    /\ UiActionFrame

\* TALK, lines 356-363: start_recording_audio records from the current time
CmdTalk ==
    /\ is_idle(action) => UiRoom
    /\ action' = IF is_idle(action) THEN start_recording_audio(now) ELSE action
    /\ ui_last' = [ev |-> "TALK", what |-> "", n |-> 0]
    /\ UNCHANGED <<now, cmd_queue>>
    /\ UiActionFrame

\* STOP that submits an audio snippet only if the recording left samples
stop_drops_empty(a, drawn, captured) ==
    IF a.kind \in {"Idle", "Scanning"} THEN [action |-> a, submit |-> <<>>]
    ELSE IF a.kind = "Playing" THEN [action |-> stop_playing, submit |-> <<>>]
    ELSE IF a.kind \in {"WaitingToRecord", "Recording"}
      THEN [action |-> stop_recording_action,
            submit |-> IF a.kind = "Recording" /\ drawn
                         THEN <<[cmd |-> "ADD_SNIPPET", snip |-> <<>>]>>
                         ELSE <<>>]
      ELSE LET snip == stop_recording_audio(captured)
           IN  [action |-> stop_recording_action,
                submit |-> IF snip.buf # <<>>
                             THEN <<[cmd |-> "ADD_AUDIO_SNIPPET", snip |-> snip]>>
                             ELSE <<>>]

\* STOP, lines 364-380: the action after it and the commands it submits.
\* stop_recording gives a snippet if something was drawn, stop_recording_audio
\* always gives one.
stop(a, drawn, captured) ==
    IF a.kind \in {"Idle", "Scanning"} THEN [action |-> a, submit |-> <<>>]
    ELSE IF a.kind = "Playing" THEN [action |-> stop_playing, submit |-> <<>>]
    ELSE IF a.kind \in {"WaitingToRecord", "Recording"}
      THEN [action |-> stop_recording_action,
            submit |-> IF a.kind = "Recording" /\ drawn
                         THEN <<[cmd |-> "ADD_SNIPPET", snip |-> <<>>]>>
                         ELSE <<>>]
      ELSE [action |-> stop_recording_action,
            submit |-> <<[cmd |-> "ADD_AUDIO_SNIPPET",
                          snip |-> stop_recording_audio(captured)]>>]

CmdStop(drawn, captured) ==
    LET r == stop(action, drawn, captured)
    IN  /\ action' = r.action
        /\ cmd_queue' = cmd_queue \o r.submit
        /\ ui_last' = [ev |-> "STOP", what |-> action.kind, n |-> 0]
        /\ UNCHANGED now
        /\ UiActionFrame

\* WARP_TIME_TO, lines 381-388
CmdWarpTimeTo(time) ==
    /\ now' = IF is_idle(action) THEN time ELSE now
    /\ ui_last' = [ev |-> "WARP_TIME_TO", what |-> "", n |-> time]
    /\ UNCHANGED <<action, cmd_queue>>
    /\ UiActionFrame

\* a submitted ADD_AUDIO_SNIPPET is handled, lines 238-246: the catalog with
\* the snippet replaces the catalog and is pushed on the undo stack
CmdAddAudioSnippet ==
    /\ cmd_queue # <<>>
    /\ Head(cmd_queue).cmd = "ADD_AUDIO_SNIPPET"
    /\ LET snip == Head(cmd_queue).snip
           r == with_new_snippet_arc(heap, app, snip)
           u == UndoPush(undo_stack, undo_pos, r.ret)
       IN  /\ heap' = r.heap
           /\ app' = r.ret
           /\ undo_stack' = u.stack
           /\ undo_pos' = u.pos
           /\ given' = [given EXCEPT ![r.ret.last_id] = @ \cup {snip}]
    /\ cmd_queue' = Tail(cmd_queue)
    /\ last_op' = "add"
    /\ ui_last' = [ev |-> "ADD_AUDIO_SNIPPET", what |-> "", n |-> 0]
    /\ UNCHANGED <<snap, snap_view>>
    /\ UNCHANGED <<action, now, encoder_progress, encoding_status, chans, encoders>>
    /\ UNCHANGED <<mixvars, enginevars, fnvars>>

\* a submitted ADD_SNIPPET is handled: the drawing goes to the drawn
\* snippets, the audio catalog is not touched
CmdAddSnippet ==
    /\ cmd_queue # <<>>
    /\ Head(cmd_queue).cmd = "ADD_SNIPPET"
    /\ cmd_queue' = Tail(cmd_queue)
    /\ ui_last' = [ev |-> "ADD_SNIPPET", what |-> "", n |-> 0]
    /\ UNCHANGED <<action, now>>
    /\ UiActionFrame

\* EXPORT that starts an encoder whatever the marker says
export_unguarded(marker, status, ch) ==
    [marker |-> Len(ch) + 1, status |-> "None", chans |-> Append(ch, <<>>),
     spawned |-> {Len(ch) + 1}]

\* EXPORT, lines 258-274: with an export in progress nothing is done;
\* otherwise a channel is made, its receiver kept in encoder_progress, the
\* status reset and the encoder thread spawned with the sender
export(marker, status, ch) ==
    IF marker # None
      THEN [marker |-> marker, status |-> status, chans |-> ch, spawned |-> {}]
      ELSE [marker |-> Len(ch) + 1, status |-> "None", chans |-> Append(ch, <<>>),
            spawned |-> {Len(ch) + 1}]

CmdExport ==
    LET r == export(encoder_progress, encoding_status, chans)
    IN  /\ Len(r.chans) <= MaxExports
        /\ encoder_progress' = r.marker
        /\ encoding_status' = r.status
        /\ chans' = r.chans
        /\ encoders' = encoders \cup r.spawned
        /\ ui_last' = [ev |-> "EXPORT", what |-> "", n |-> 0]
        /\ UNCHANGED <<action, now, cmd_queue>>
        /\ UNCHANGED <<mixvars, enginevars, appvars, fnvars>>

\* encode_blocking in its thread: it sends statuses while it encodes and
\* ends with Finished or Error
EncoderSend(c, status) ==
    /\ c \in encoders
    /\ status = "Encoding" => Len(chans[c]) < MaxBacklog
    /\ chans' = [chans EXCEPT ![c] = Append(@, status)]
    /\ encoders' = IF status = "Encoding" THEN encoders ELSE encoders \ {c}
    /\ ui_last' = [ev |-> "encoder", what |-> status, n |-> c]
    /\ UNCHANGED <<action, now, encoder_progress, encoding_status, cmd_queue>>
    /\ UNCHANGED <<mixvars, enginevars, appvars, fnvars>>

\* AppState::update_time: the time moves while something is going on
update_time(a, t) == IF is_idle(a) \/ a.kind = "WaitingToRecord" THEN {t} ELSE UiTimes

\* Event::Timer, lines 415-431: the last status waiting in the channel
\* becomes the encoding status, a status of Finished or Error clears
\* encoder_progress; then the time is updated
Timer ==
    /\ IF encoder_progress # None
         THEN LET rx == chans[encoder_progress]
                  st == IF rx # <<>> THEN rx[Len(rx)] ELSE encoding_status
              IN  /\ encoding_status' = st
                  /\ chans' = [chans EXCEPT ![encoder_progress] = <<>>]
                  /\ encoder_progress' = IF st \in {"Finished", "Error"}
                                           THEN None ELSE encoder_progress
         ELSE UNCHANGED <<encoding_status, chans, encoder_progress>>
    /\ now' \in update_time(action, now)
    /\ ui_last' = [ev |-> "Timer", what |-> "", n |-> 0]
    /\ UNCHANGED <<action, encoders, cmd_queue>>
    /\ UNCHANGED <<mixvars, enginevars, appvars, fnvars>>

\* the root widget is the same in both builds: the release build is taken
InitUi == InitAudio /\ debug = FALSE

\* the keys, the commands and the timer, with no export going on
NextUi ==
    \/ \E key \in Keys, shift \in BOOLEAN : KeyDown(key, shift)
    \/ \E key \in Keys : KeyUp(key)
    \/ CmdPlay
    \/ CmdDraw
    \/ PenDown
    \/ CmdTalk
    \/ \E drawn \in BOOLEAN, captured \in UiCaptures : CmdStop(drawn, captured)
    \/ \E time \in UiTimes : CmdWarpTimeTo(time)
    \/ CmdAddAudioSnippet
    \/ CmdAddSnippet
    \/ Timer

SpecUi == InitUi /\ [][NextUi]_vars

\* the exports, their encoder threads and the timer, with playback started
\* and stopped meanwhile
NextExport ==
    \/ CmdExport
    \/ \E c \in 1..MaxExports, status \in {"Encoding", "Finished", "Error"} :
          EncoderSend(c, status)
    \/ Timer
    \/ CmdPlay
    \/ \E captured \in UiCaptures : CmdStop(FALSE, captured)

SpecExport == InitUi /\ [][NextExport]_vars

\* the commands submitted are delivered
SpecUiFair == SpecUi /\ WF_vars(CmdAddAudioSnippet) /\ WF_vars(CmdAddSnippet)


\* ------------------------------------------------- reference for the claims
\* the sample a snippet holds for timeline position p, 0 where it has none
SampleAt(snip, p) ==
    IF p - snip.start_time >= 0 /\ p - snip.start_time < Len(snip.buf)
      THEN snip.buf[p - snip.start_time + 1] ELSE 0

\* the exact sum over the snippets with ids in S of their samples at p
RECURSIVE TimelineSum(_, _, _)
TimelineSum(data, S, p) ==
    IF S = {} THEN 0
    ELSE LET id == CHOOSE x \in S : TRUE
         IN  SampleAt(data.snippets[id], p) + TimelineSum(data, S \ {id}, p)

TimelineSample(data, p) == TimelineSum(data, DOMAIN data.snippets, p)

\* a fresh cursor and one call with a zeroed buffer of length n
FreshMix(data, t, v, n, sf, dbg) ==
    mix_to_buffer(CursorNew(data, t, TestSampleRate, v), data, Zeros(n), sf, dbg)

\* the catalog that holds only the snippet id of data
Alone(data, id) ==
    [last_id |-> data.last_id, snippets |-> [k \in {id} |-> data.snippets[k]]]

\* the exact sum over the ids in S of what each snippet alone gives at output
\* index i
RECURSIVE AloneSum(_, _, _, _, _, _, _, _)
AloneSum(data, S, t, v, n, sf, dbg, i) ==
    IF S = {} THEN 0
    ELSE LET id == CHOOSE x \in S : TRUE
         IN  FreshMix(Alone(data, id), t, v, n, sf, dbg).buf[i]
             + AloneSum(data, S \ {id}, t, v, n, sf, dbg, i)

\* the state after the first call on a fresh cursor, made without a panic
FirstCallDone == ncalls = 1 /\ fault = "none"

\* --------------------------------------------------------------------- C1
\* C1: for speed +1.0 or -1.0 (the cursor constructed with that velocity),
\* one mix_to_buffer call into a zeroed buffer completes and gives at every
\* output index the sum, in i16 arithmetic, of what each snippet alone gives
\* there.
C1_SumOfSingles ==
    (ncalls = 1 /\ call1.sf \in {-2, 2} /\ call1.sf = velocity0) =>
        /\ fault = "none"
        /\ \A i \in 1..call1.n :
              out[i] = Wrap16(AloneSum(bufs, DOMAIN bufs.snippets, time0, velocity0,
                                       call1.n, call1.sf, debug, i))

\* --------------------------------------------------------------------- C2
\* C2: one snippet starting at T >= 0, cursor constructed at time 0 with
\* velocity 1.0, one call at speed 1.0 with a zeroed buffer of length n:
\* the call completes, output[i] = 0 for i < T, output[T + j] is the j-th
\* sample, and every index after the last sample is 0.
C2_SingleSnippetForward ==
    (ncalls = 1 /\ Cardinality(DOMAIN bufs.snippets) = 1
        /\ time0 = 0 /\ velocity0 = 2 /\ call1.sf = 2) =>
        LET snip == bufs.snippets[1]
            T == snip.start_time
        IN  /\ fault = "none"
            /\ Len(out) = call1.n
            /\ \A i \in 0..(call1.n - 1) :
                  out[i + 1] = IF i < T THEN 0
                               ELSE IF i - T < Len(snip.buf) THEN snip.buf[i - T + 1]
                               ELSE 0

\* C2 witness: silence, then the snippet's sample, then silence again
C2_Witness ==
    /\ FirstCallDone /\ Cardinality(DOMAIN bufs.snippets) = 1
    /\ time0 = 0 /\ velocity0 = 2 /\ call1.sf = 2
    /\ bufs.snippets[1].start_time = 1
    /\ out = <<0, 7, 0>>

\* --------------------------------------------------------------------- C3
\* C3: a cursor constructed at position P with velocity -1.0 and one call at
\* speed -1.0 into a zeroed buffer: the call completes and output[i] is the
\* sum, in i16 arithmetic, over the snippets of the sample at timeline
\* position P - 1 - i.
C3_Reverse ==
    (ncalls = 1 /\ velocity0 = -2 /\ call1.sf = -2) =>
        /\ fault = "none"
        /\ \A i \in 0..(call1.n - 1) :
              out[i + 1] = Wrap16(TimelineSample(bufs, time0 - 1 - i))

\* --------------------------------------------------------------------- C4
\* C4: at speed 2.0 output[i] is the mix at timeline position P + 2i, at
\* speed -2.0 the mix at position P - 1 - 2i (cursor constructed at P in the
\* direction of the speed).
C4_Decimation ==
    (ncalls = 1 /\ call1.sf \in {-4, 4} /\ SignumF(velocity0) = SignumF(call1.sf)) =>
        /\ fault = "none"
        /\ \A i \in 0..(call1.n - 1) :
              out[i + 1] = IF call1.sf = 4
                             THEN Wrap16(TimelineSample(bufs, time0 + 2 * i))
                             ELSE Wrap16(TimelineSample(bufs, time0 - 1 - 2 * i))

\* --------------------------------------------------------------------- C5
\* C5: k calls in a row at one integer speed with zeroed buffers of length n
\* complete and give, concatenated, what one call with a zeroed buffer of
\* length k * n gives on a fresh cursor.
C5_Incremental ==
    (ncalls >= 1 /\ uniform /\ call1.sf \in {-4, -2, 2, 4}
        /\ SignumF(velocity0) = SignumF(call1.sf)) =>
        LET whole == FreshMix(bufs, time0, velocity0, ncalls * call1.n, call1.sf, debug)
        IN  /\ fault = "none"
            /\ whole.fault = "none"
            /\ acc = whole.buf

\* --------------------------------------------------------------------- C6
\* C6: no mix_to_buffer call, in any sequence of calls with nonzero speeds,
\* panics because its read window lies outside a snippet's stored samples.
C6_NoOutOfRangeFault == fault # "slice"

\* --------------------------------------------------------------------- C7
\* C7: a snippet the retire step has removed is never in the active set
\* again, and no snippet enters the active set more than once.
C7_RetiredForGood ==
    \A id \in DOMAIN bufs.snippets :
        /\ pushes[id] <= 1
        /\ Occurrences(cursor.active_cursors, id) <= 1
        /\ id \in retired => Occurrences(cursor.active_cursors, id) = 0

\* the ids the first call retired
RetiredByCall1 ==
    LET c0 == CursorNew(bufs, time0, TestSampleRate, velocity0)
        swept == Sweep(c0, InputAmount(call1.n, call1.sf))
        r == mix_to_buffer(c0, bufs, Zeros(call1.n), call1.sf, debug)
    IN  IF r.fault # "none" THEN {}
        ELSE CursorIds(swept.active_cursors) \ CursorIds(r.cursor.active_cursors)

\* C7 witness: the first call retired a snippet and the second call, in the
\* opposite direction, read a window that holds samples of that snippet
C7_Witness ==
    /\ ncalls = 2 /\ fault = "none"
    /\ SignumF(call1.sf) # SignumF(speed_factor)
    /\ \E id \in RetiredByCall1 :
          LET a == InputAmount(Len(out), speed_factor)
              lo == Min2(cursor.cur_idx - a, cursor.cur_idx)
              hi == Max2(cursor.cur_idx - a, cursor.cur_idx)
              snip == bufs.snippets[id]
          IN  /\ \E p \in lo..(hi - 1) :
                    /\ time0 + p >= snip.start_time
                    /\ time0 + p < snip.start_time + Len(snip.buf)
              /\ Occurrences(cursor.active_cursors, id) = 0

\* --------------------------------------------------------------------- C8
\* C8 as stated: is_finished() is true only when every snippet of the catalog
\* has been moved into the active set and later removed from it.
C8_FinishedAllPlayed ==
    CursorIsFinished(cursor) =>
        \A id \in DOMAIN bufs.snippets : pushes[id] >= 1 /\ id \in retired

\* a snippet that lay wholly behind the construction position: Cursor::new
\* counts it as started and finished and never puts it in the active set
BehindAtConstruction(id) ==
    LET c == CursorBufferNew(id, bufs.snippets[id], time0, TestSampleRate)
    IN  /\ is_started(c, 0, SignumF(velocity0))
        /\ is_finished(c, 0, SignumF(velocity0))

\* C8 amended: is_finished() is true exactly when the active set is empty
\* and next_cursor is the number of catalog entries, and then every snippet
\* either was in the active set and was removed from it, or lay behind the
\* construction position and never entered the active set.
C8_FinishedAllPlayedOrBehind ==
    /\ CursorIsFinished(cursor) <=>
          (Len(cursor.active_cursors) = 0
             /\ cursor.next_cursor = Cardinality(DOMAIN bufs.snippets))
    /\ CursorIsFinished(cursor) =>
          \A id \in DOMAIN bufs.snippets :
              \/ pushes[id] = 1 /\ id \in retired
              \/ pushes[id] = 0 /\ id \notin retired /\ BehindAtConstruction(id)

\* C8 witness: finished, with one snippet played and retired and another
\* one that lay behind the construction position
C8_Witness ==
    /\ CursorIsFinished(cursor)
    /\ \E id \in DOMAIN bufs.snippets : pushes[id] = 1 /\ id \in retired
    /\ \E id \in DOMAIN bufs.snippets : pushes[id] = 0 /\ BehindAtConstruction(id)

\* --------------------------------------------------------------------- C9
\* C9: start_recording with an input stream installed, and start_playing with
\* an output stream installed, panics, and the step that panics leaves the
\* installed stream ids, the capture buffer, the cursor, the catalog snapshot
\* and the speed factor as they were.
C9_DoubleStartFaultsCleanly ==
    [][ /\ (ctl_pc = "sr_locked" /\ ctl_pc' # ctl_pc /\ in_id # None)
            => ctl_fault' = "double_start"
        /\ (ctl_pc = "sp_locked" /\ ctl_pc' # ctl_pc /\ out_id # None)
            => ctl_fault' = "double_start"
        /\ (ctl_fault = "none" /\ ctl_fault' = "double_start")
            => UNCHANGED <<in_id, in_buf, out_id, cursor, bufs, speed_factor>>
      ]_vars

\* C9 witness: a second start_recording has panicked while a recording with
\* captured samples was in progress
C9_Witness ==
    /\ ctl_fault = "double_start"
    /\ in_id # None
    /\ in_buf # <<>>

\* -------------------------------------------------------------------- C10
\* the chunks of log[from + 1 .. to] that were delivered for stream id,
\* concatenated in order
RECURSIVE ConcatLog(_, _, _, _)
ConcatLog(lg, id, from, to) ==
    IF to <= from THEN <<>>
    ELSE ConcatLog(lg, id, from, to - 1)
         \o (IF lg[to].id = id THEN lg[to].chunk ELSE <<>>)

\* C10: the buffer stop_recording hands to the post-processor is the
\* concatenation, in delivery order, of the chunks the input callbacks
\* delivered for this recording's stream id between the critical sections of
\* start_recording and stop_recording.
C10_HandedIsDelivered ==
    handed_rec.id # None =>
        handed = ConcatLog(log, handed_rec.id, handed_rec.from, handed_rec.to)

\* C10 witness: a second recording was handed over with two chunks, after an
\* earlier recording had captured samples and while a callback of the earlier
\* stream arrived during the second one
C10_Witness ==
    /\ handed_rec.id # None
    /\ Len(handed) >= 2
    /\ \E k \in 1..handed_rec.from : log[k].id # handed_rec.id
    /\ \E k \in (handed_rec.from + 1)..handed_rec.to : log[k].id # handed_rec.id

\* -------------------------------------------------------------------- C11
\* the callback in flight belongs to a stream that has been torn down
StaleCallback ==
    rt_stream # None /\ streams[rt_stream].state = "destroyed"

\* C11: a callback of a torn-down stream, also one that was invoked before
\* the stop and took the lock after it, leaves the capture buffer (input
\* callback) and the cursor (output callback) as they were; and while no
\* input stream is installed the capture buffer is empty before and after
\* every step.
C11_NoCallbackAfterStop ==
    [][ /\ (rt_pc = "in_locked" /\ StaleCallback) => in_buf' = in_buf
        /\ (rt_pc = "out_locked" /\ StaleCallback) => cursor' = cursor
        /\ in_id = None => in_buf = <<>>
        /\ in_id' = None => in_buf' = <<>>
      ]_vars

\* C11 witness: stop_recording has returned a recording with samples, no
\* stream is installed, and a chunk of the stopped stream was delivered after
\* its buffer was taken
C11_Witness ==
    /\ ctl_pc = "idle"
    /\ in_id = None
    /\ handed # <<>>
    /\ \E k \in (handed_rec.to + 1)..Len(log) : log[k].id = handed_rec.id

\* -------------------------------------------------------------------- C12
\* the callback in flight is for a stream other than the installed one of its
\* kind (another stream, or none installed)
NotInstalled ==
    \/ rt_pc \in {"in_want", "in_locked"} /\ in_id # rt_stream
    \/ rt_pc \in {"out_want", "out_locked"} /\ out_id # rt_stream

\* the lock the callback in flight takes is poisoned
LockPoisoned ==
    \/ rt_pc \in {"in_want", "in_locked"} /\ in_poisoned
    \/ rt_pc \in {"out_want", "out_locked"} /\ out_poisoned

\* a step of the audio thread inside a callback
CallbackStep == rt_pc # "idle" /\ rt_pc' # rt_pc

\* the state shared between the control thread and the audio thread
SharedUnchanged ==
    UNCHANGED <<cursor, speed_factor, bufs, in_buf, in_id, out_id>>

C13_EverySampleWritten ==
    (rt_pc = "idle" /\ fault = "none") =>
        \A i \in 1..Len(out) : out[i] # Stale(Len(out))[i]

\* -------------------------------------------------------------------- C14
\* the output state (id, b, sf, c) is the one start_playing installs for the
\* stream and the arguments the control thread holds
InstalledAsAsked(id, b, sf, c) ==
    /\ id = ctl_stream
    /\ b = ctl_args.data
    /\ sf = ctl_args.velocity
    /\ c = CursorNew(ctl_args.data, ctl_args.time, TestSampleRate, ctl_args.velocity)
    /\ c.cur_idx = 0

\* C14: start_playing installs the new stream id, the cursor built from its
\* catalog, time and velocity (position 0), the catalog and speed factor =
\* velocity in one step, while the stream is not yet played; they are still
\* so when start_playing returns; an output stream id is installed by no
\* other step; and whenever a callback mixes, the cursor holds exactly one
\* entry per snippet of the installed catalog.
C14_InstalledTogether ==
    [][ /\ (ctl_pc = "sp_locked" /\ ctl_pc' = "sp_play") =>
              /\ InstalledAsAsked(out_id', bufs', speed_factor', cursor')
              /\ streams'[ctl_stream].state = "built"
        /\ (ctl_pc = "sp_play" /\ ctl_pc' = "idle") =>
              /\ InstalledAsAsked(out_id, bufs, speed_factor, cursor)
              /\ UNCHANGED <<out_id, bufs, speed_factor, cursor>>
              /\ streams'[out_id].state = "playing"
        /\ (out_id' # out_id /\ out_id' # None) => ctl_pc = "sp_locked"
        /\ (rt_pc = "out_locked" /\ output_guard(out_id, rt_stream)) =>
              /\ CursorIds(cursor.all_cursors) = DOMAIN bufs.snippets
              /\ Len(cursor.all_cursors) = Cardinality(DOMAIN bufs.snippets)
      ]_vars

\* C14 witness: a second playback, of another catalog, has been installed
\* after the first one mixed, and its first callback holds the lock
C14_Witness ==
    /\ rt_pc = "out_locked"
    /\ out_id = rt_stream
    /\ out_id = 2
    /\ streams[1].kind = "out"
    /\ Len(out) > 0
    /\ cursor.cur_idx = 0
    /\ Cardinality(DOMAIN bufs.snippets) = 2

\* -------------------------------------------------------------------- C15
\* C15: the critical section of set_velocity(v) sets the speed factor to v
\* and leaves the installed ids, the cursor, the catalog snapshot and the
\* capture buffer as they were; the speed factor is changed by no step other
\* than set_velocity and start_playing; and a callback of the installed
\* stream mixes its whole zeroed buffer with the speed factor it finds under
\* the lock.
C15_SetVelocityOnlySpeed ==
    [][ /\ (ctl_pc = "sv_locked" /\ ctl_pc' # ctl_pc) =>
              /\ speed_factor' = ctl_args.velocity
              /\ UNCHANGED <<out_id, cursor, bufs, in_id, in_buf, streams>>
        /\ speed_factor' # speed_factor => ctl_pc \in {"sv_locked", "sp_locked"}
        /\ (rt_pc = "out_locked" /\ rt_pc' # rt_pc /\ output_guard(out_id, rt_stream)) =>
              LET r == mix_to_buffer(cursor, bufs, Zeros(Len(rt_buf)), speed_factor, debug)
              IN  /\ out' = r.buf
                  /\ cursor' = r.cursor
                  /\ speed_factor' = speed_factor
      ]_vars

\* C15 witness: the first callback of a playback started forward at 1.0 has
\* mixed its whole buffer at 2.0, the velocity set in between
C15_Witness ==
    /\ out_id # None
    /\ ncalls = 1
    /\ velocity0 = 2
    /\ call1 = [n |-> CallbackLen, sf |-> 4]
    /\ out = <<1, 3>>
    /\ fault = "none"

\* -------------------------------------------------------------------- C16
\* C16: stop_playing never faults: the output lock is not poisoned when the
\* control thread is free to call it. Its critical section leaves no stream
\* installed and, when one was installed, that stream destroyed; with none
\* installed it changes neither the streams nor anything else shared; in
\* both cases the cursor, the catalog snapshot, the speed factor and the
\* input state are unchanged, so a second call right after the first finds
\* none installed and changes nothing.
C16_StopPlayingIdempotent ==
    [][ /\ (CtlRunning /\ ctl_pc = "idle") => ~out_poisoned
        /\ (ctl_pc = "xp_locked" /\ ctl_pc' # ctl_pc) =>
              /\ ctl_fault' = "none"
              /\ out_id' = None
              /\ out_id # None => streams' = [streams EXCEPT ![out_id].state = "destroyed"]
              /\ out_id = None => streams' = streams
              /\ UNCHANGED <<cursor, bufs, speed_factor, in_id, in_buf>>
      ]_vars

\* -------------------------------------------------------------------- C17
\* C17: neither the control thread nor the audio thread holds the input lock
\* and the output lock at once, and a thread that holds one of them is
\* inside that lock's critical section, where its next step takes no lock:
\* no thread waits for a lock while it holds one.
C17_NeverBothLocks ==
    /\ ~(in_lock = "ctl" /\ out_lock = "ctl")
    /\ ~(in_lock = "rt" /\ out_lock = "rt")
    /\ in_lock = "ctl" => ctl_pc \in {"sr_locked", "xr_locked", "xr_process"}
    /\ out_lock = "ctl" => ctl_pc \in {"sp_locked", "xp_locked", "sv_locked"}
    /\ in_lock = "rt" => rt_pc = "in_locked"
    /\ out_lock = "rt" => rt_pc = "out_locked"

\* C17 witness: both locks are held at once, by different threads: the
\* control thread is in stop_recording with the input lock while a callback
\* of the installed stream mixes under the output lock
C17_Witness ==
    /\ in_lock = "ctl"
    /\ ctl_pc = "xr_process"
    /\ out_lock = "rt"
    /\ output_guard(out_id, rt_stream)

\* -------------------------------------------------------------------- C18
\* C18: while stop_recording runs process_audio the control thread does not
\* hold the input lock, so no callback waits for that lock for the duration
\* of the post-processing.
C18_ProcessOutsideLock ==
    ctl_pc = "xr_process" =>
        /\ in_lock # "ctl"
        /\ ~(rt_pc = "in_want" /\ in_lock # "free")

\* -------------------------------------------------------------------- C19
\* C19: the step that adds a snippet gives the application a catalog with
\* every entry of the catalog before, unchanged and under its id, plus the
\* new snippet under last_id + 1, and last_id one higher; the catalog value
\* it was made from, every catalog of the undo history and the clone handed
\* to the audio engine still stand for the same entries and last_id.
C19_WithNewSnippetFrame ==
    [][ last_op' = "add" =>
          LET old == Deref(heap, app)
              new == Deref(heap', app')
          IN  /\ new.last_id = old.last_id + 1
              /\ DOMAIN new.snippets = (DOMAIN old.snippets) \cup {old.last_id + 1}
              /\ old.last_id + 1 \notin DOMAIN old.snippets
              /\ \A id \in DOMAIN old.snippets : new.snippets[id] = old.snippets[id]
              /\ new.snippets[old.last_id + 1] = Recording(Len(heap))
              /\ Deref(heap', app) = old
              /\ \A k \in 1..Len(undo_stack) :
                    Deref(heap', undo_stack[k]) = Deref(heap, undo_stack[k])
              /\ Deref(heap', snap) = snap_view
      ]_vars

\* C19 witness: a snippet was added to a catalog that had lost an entry,
\* after an earlier catalog with entries was handed to the engine
C19_Witness ==
    /\ last_op = "add"
    /\ Cardinality(DOMAIN heap[app.snippets]) < app.last_id
    /\ Cardinality(DOMAIN heap[app.snippets]) >= 2
    /\ snap_view.snippets # <<>>
    /\ snap # app

\* -------------------------------------------------------------------- C20
\* C20: after any sequence of ADD_AUDIO_SNIPPET, DELETE_SNIPPET, UNDO and
\* REDO from the empty catalog, no id has been given to two different
\* snippets, and every id of the application's catalog is at most its
\* last_id.
C20_IdsNeverReused ==
    /\ \A id \in DOMAIN given : Cardinality(given[id]) <= 1
    /\ \A id \in DOMAIN heap[app.snippets] : id >= 1 /\ id <= app.last_id

\* -------------------------------------------------------------------- C21
\* C21 as stated: process_audio returns the empty buffer exactly when the
\* length left after the trailing cut, len - trunc, is at most 2 * trunc.
C21_EmptyIffRestShort ==
    fn_call.fn = "process_audio" =>
        (fn_call.result.out = <<>>
            <=> Len(fn_call.args.buf) - fn_call.args.trunc_samples
                    <= 2 * fn_call.args.trunc_samples)

\* C21 amended: process_audio returns the empty buffer exactly when the
\* recording itself, before anything is cut, is at most 2 * trunc long; a
\* longer recording goes through the denoiser and comes back nonempty.
C21_EmptyIffRecordingShort ==
    fn_call.fn = "process_audio" =>
        /\ fn_call.result.out = <<>>
              <=> Len(fn_call.args.buf) <= 2 * fn_call.args.trunc_samples
        /\ fn_call.result.out = <<>> <=> ~fn_call.result.denoised

\* C21 witness: a recording longer than 2 * trunc and not longer than
\* 3 * trunc came back nonempty
C21_Witness ==
    /\ fn_call.fn = "process_audio"
    /\ Len(fn_call.args.buf) > 2 * fn_call.args.trunc_samples
    /\ Len(fn_call.args.buf) <= 3 * fn_call.args.trunc_samples
    /\ fn_call.result.out # <<>>

\* -------------------------------------------------------------------- C22
\* the smallest multiple of fs that is >= n
PaddedLen(n, fs) == CHOOSE m \in n..(n + fs) : m % fs = 0 /\ m - fs < n

\* C22: for a recording that process_audio does not reject, the buffer given
\* to the denoiser has 0 at the first trunc indices, the recorded samples at
\* the indices from trunc up to len - trunc, and 0 from there up to the
\* smallest multiple of the frame size >= len - trunc; the buffer returned
\* has that same length.
C22_MutedNotCut ==
    (fn_call.fn = "process_audio" /\ fn_call.result.denoised) =>
        LET buf == fn_call.args.buf
            trunc == fn_call.args.trunc_samples
            fed == fn_call.result.fed
            padded == PaddedLen(Len(buf) - trunc, fn_call.args.fs)
        IN  /\ Len(fed) = padded
            /\ Len(fn_call.result.out) = padded
            /\ \A i \in 1..trunc : fed[i] = 0
            /\ \A i \in (trunc + 1)..(Len(buf) - trunc) : fed[i] = buf[i]
            /\ \A i \in (Len(buf) - trunc + 1)..padded : fed[i] = 0

\* C22 witness: a recording was denoised whose kept part needed padding and
\* whose middle part holds more than one sample
C22_Witness ==
    /\ fn_call.fn = "process_audio"
    /\ fn_call.result.denoised
    /\ Len(fn_call.result.fed) > Len(fn_call.args.buf) - fn_call.args.trunc_samples
    /\ Len(fn_call.args.buf) - 2 * fn_call.args.trunc_samples >= 2
    /\ fn_call.args.trunc_samples >= 2

\* -------------------------------------------------------------------- C23
\* C23: a first call at speed 1.0 on a cursor constructed forward, for a
\* catalog whose exact sum at some output index lies outside the i16 range,
\* completes, and every output sample is the exact sum reduced modulo 2^16.
C23_WrapsWithoutFault ==
    (ncalls = 1 /\ velocity0 = 2 /\ call1.sf = 2
        /\ \E i \in 0..(call1.n - 1) : ~InI16(TimelineSample(bufs, time0 + i))) =>
        /\ fault = "none"
        /\ \A i \in 0..(call1.n - 1) :
              out[i + 1] = Wrap16(TimelineSample(bufs, time0 + i))

\* ------------------------------------------------------------------- C24
\* the half-open window from `from` to `from + amount`, amount of either
\* sign, meets the valid sample range [0, len) of the snippet of cursor c
WindowHits(c, from, amount) ==
    LET lo == IF amount > 0 THEN from ELSE from + amount
        hi == IF amount > 0 THEN from + amount ELSE from
    IN  c.start + lo < c.len /\ c.start + hi > 0

\* the amount the last call consumed and the position it started from
LastAmount == InputAmount(Len(out), speed_factor)

LastFrom == cursor.cur_idx - LastAmount

\* C24: after every mix_to_buffer call, whatever the signs of the speed
\* factors of the session, a snippet's cursor is in the active set if and
\* only if the read window of that call met the snippet's range [0, length).
C24_ActiveIffWindowHit ==
    (ncalls > 0 /\ fault = "none") =>
        \A k \in 1..Len(cursor.all_cursors) :
            LET c == cursor.all_cursors[k]
            IN  c.id \in CursorIds(cursor.active_cursors)
                    <=> WindowHits(c, LastFrom, LastAmount)

\* ------------------------------------------------------------------- C25
\* C25: is_active(from, amount) is true exactly when the half-open window
\* from `from` to `from + amount` meets the snippet's range, for every
\* start, length, from and nonzero amount; so it is false for a window that
\* lies wholly past the snippet in the direction of travel.
C25_IsActiveIffIntersects ==
    fn_call.fn = "is_active" =>
        (fn_call.result
            <=> WindowHits(fn_call.args.c, fn_call.args.from, fn_call.args.amount))

\* ------------------------------------------------------------------- C26
\* the position the last call swept from: a call that panicked has not
\* advanced the position
SweptFrom == IF fault = "none" THEN LastFrom ELSE cursor.cur_idx

\* C26: while the speed factor keeps the sign of the construction velocity,
\* after the activation sweep of every call no cursor at an index >=
\* next_cursor of the sorted list is active for that call's window.
C26_SweepLeavesNoneBehind ==
    (ncalls > 0 /\ ~turned) =>
        \A k \in (cursor.next_cursor + 1)..Len(cursor.all_cursors) :
            ~is_active(cursor.all_cursors[k], SweptFrom, LastAmount)

\* a call whose sweep activated a cursor and stopped before another one
C26_Witness ==
    /\ ncalls > 0 /\ ~turned /\ fault = "none"
    /\ cursor.next_cursor < Len(cursor.all_cursors)
    /\ \E id \in DOMAIN pushes : pushes[id] > 0

\* ------------------------------------------------------------------- C27
\* started and finished at position 0, written out for a direction
StartedAtZero(c, direction) == IF direction = 1 THEN c.start >= 0 ELSE c.start < c.len

FinishedAtZero(c, direction) == IF direction = 1 THEN c.start >= c.len ELSE c.start < 0

\* C27: after Cursor::new with a nonzero velocity the cursors before
\* next_cursor are started at position 0 for the velocity's direction, the
\* cursors from next_cursor on are not, the active set is exactly the
\* started cursors that are not finished at position 0, the position is 0
\* and all_cursors holds one cursor per catalog entry.
C27_NewPartitions ==
    ncalls = 0 =>
        LET all == cursor.all_cursors
            d == IF velocity0 > 0 THEN 1 ELSE -1
            live == {k \in 1..Len(all) : StartedAtZero(all[k], d) /\ ~FinishedAtZero(all[k], d)}
        IN  /\ cursor.cur_idx = 0
            /\ Len(all) = Cardinality(DOMAIN bufs.snippets)
            /\ \A id \in DOMAIN bufs.snippets :
                   \E k \in 1..Len(all) :
                       all[k] = [id |-> id,
                                 start |-> time0 - bufs.snippets[id].start_time,
                                 len |-> Len(bufs.snippets[id].buf)]
            /\ cursor.next_cursor \in 0..Len(all)
            /\ \A k \in 1..Len(all) : StartedAtZero(all[k], d) <=> k <= cursor.next_cursor
            /\ Len(cursor.active_cursors) = Cardinality(live)
            /\ CursorIds(cursor.active_cursors) = {all[k].id : k \in live}

\* a construction that finds one snippet playing and one still to come
C27_Witness ==
    /\ ncalls = 0
    /\ cursor.active_cursors # <<>>
    /\ cursor.next_cursor < Len(cursor.all_cursors)

\* ------------------------------------------------------------------- C28
\* the same call made on a zeroed buffer with wrapping sums: what it stores
\* is the mix contribution of each output index, modulo 2^16
OnZeroed ==
    mix_to_buffer(fn_call.args.self, fn_call.args.data, Zeros(Len(fn_call.args.buf)),
                  fn_call.args.speed_factor, FALSE)

\* the cursors the call mixes: the seeded ones and those its sweep activates
MixedCursors ==
    Sweep(fn_call.args.self,
          InputAmount(Len(fn_call.args.buf), fn_call.args.speed_factor)).active_cursors

C28_WitnessIdle ==
    /\ fn_call.fn = "mix_to_buffer"
    /\ fn_call.result.fault = "none"
    /\ MixedCursors = <<>>
    /\ fn_call.args.data # EmptyCatalog

\* ------------------------------------------------------------------- C29
\* the linear interpolation, truncated to an integer, between the two
\* samples of a snippet next to the timeline position num / SpeedDen
InterpAt(snip, num) ==
    LET p0 == FloorDiv(num, SpeedDen)
        p1 == CeilDiv(num, SpeedDen)
        w == num - p0 * SpeedDen
    IN  TruncDiv(SampleAt(snip, p0) * (SpeedDen - w) + SampleAt(snip, p1) * w, SpeedDen)

\* the sum over the snippets with ids in S of their interpolations
RECURSIVE InterpSum(_, _, _)
InterpSum(data, S, num) ==
    IF S = {} THEN 0
    ELSE LET id == CHOOSE x \in S : TRUE
         IN  InterpAt(data.snippets[id], num) + InterpSum(data, S \ {id}, num)

\* C29: at a non-integer speed factor every output sample of every call, the
\* last indices of the buffer included, is the truncated linear
\* interpolation between the two snippet samples next to the fractional
\* source index i * speed_factor, a neighbour counting as 0 only where the
\* snippet has no sample. Stated for forward playback that keeps the
\* construction direction.
C29_InterpolatesEverySample ==
    (ncalls > 0 /\ fault = "none" /\ ~turned
        /\ speed_factor > 0 /\ speed_factor % SpeedDen # 0) =>
        \A i \in 1..Len(out) :
            out[i] = Wrap16(InterpSum(bufs, DOMAIN bufs.snippets,
                                      (time0 + LastFrom) * SpeedDen
                                          + (i - 1) * speed_factor))

\* ------------------------------------------------------------------- C30
\* the sample a view holds for index idx of the view's sign: forward index k
\* addresses window position k, backward index -k window position
\* len - 1 - k; a position outside the slice reads as 0
ViewSample(b, idx) ==
    IF b.direction > 0
      THEN IF idx >= b.offset /\ idx - b.offset < Len(b.inner)
             THEN b.inner[idx - b.offset + 1] ELSE 0
      ELSE IF idx >= -b.len /\ b.len - 1 + idx >= b.offset
              /\ b.len - 1 + idx - b.offset < Len(b.inner)
             THEN b.inner[b.len - 1 + idx - b.offset + 1] ELSE 0

C31_IndexSignMatches == fault # "index_sign"

\* a call at a backward speed whose input amount rounded to 0 read a view
C31_Witness ==
    /\ ncalls > 0 /\ fault = "none"
    /\ speed_factor < 0 /\ LastAmount = 0
    /\ cursor.active_cursors # <<>>

\* ------------------------------------------------------------------- C32
\* C32: while the speed factor keeps the sign of the construction velocity,
\* the asserted preconditions of get_buf hold at every call mix_to_buffer
\* makes on an active cursor, for every catalog and construction time.
C32_GetBufPreHolds == ~turned => fault # "debug_assert"

\* ------------------------------------------------------------------- C33
\* a call made on a finished cursor leaves the cursor finished and its
\* zeroed buffer all zeros
FinishedStays ==
    CursorIsFinished(cursor) =>
        /\ CursorIsFinished(cursor')
        /\ out' = Zeros(Len(out'))

\* a call made on a cursor that is not finished returns and leaves the
\* cursor changed. mix_to_buffer is a function of the cursor, the catalog,
\* the buffer length and the speed factor, so a call of the run that gives
\* the cursor back as it was is followed by calls that do the same, and a
\* call that panics is followed by none.
UnfinishedMoves ==
    ~CursorIsFinished(cursor) => (fault' = "none" /\ cursor' # cursor)

\* C33: playback terminates: for any catalog, construction time and nonzero
\* velocity, calling mix_to_buffer again and again with a nonempty buffer
\* and the velocity as the speed factor reaches a state where is_finished()
\* is true; from then on it stays true and a call adds nothing to its
\* buffer. For the run to get there every call on an unfinished cursor has
\* to return and to change the cursor.
C33_PlaybackTerminates == [][FinishedStays /\ UnfinishedMoves]_vars

\* ------------------------------------------------------------------- C34
\* C34: at every output callback that mixes, every snippet id the installed
\* cursor holds (in all_cursors and in the active set) is a key of the
\* installed catalog, so the lookup made while mixing never meets an absent
\* id, whatever the application does to its own catalog meanwhile.
C34_CursorIdsInSnapshot ==
    /\ fault # "no_snippet"
    /\ CursorIds(cursor.all_cursors) \cup CursorIds(cursor.active_cursors)
           \subseteq DOMAIN heap[snap.snippets]

\* a callback has mixed a snippet that the application has deleted from its
\* own catalog since playback began
C34_Witness ==
    /\ last_op = "mix"
    /\ fault = "none"
    /\ \E i \in 1..Len(out) : out[i] # 0
    /\ \E id \in CursorIds(cursor.all_cursors) : id \notin DOMAIN heap[app.snippets]

\* ------------------------------------------------------------------- C39
\* C39: stop_recording with no input stream installed (never started, or
\* stopped already) is a fatal fault, not a no-op as stop_playing is: it
\* faults and leaves the capture buffer and the installed identity as they
\* were.
C39_StopRecordingWithoutStreamFaults ==
    [][ /\ (ctl_pc = "xr_locked" /\ in_id = None /\ ctl_pc' # ctl_pc) =>
              /\ ctl_fault' = "unwrap_none"
              /\ ctl_pc' = "dead"
              /\ UNCHANGED <<in_buf, in_id, streams, handed>>
        /\ (ctl_pc = "xp_locked" /\ out_id = None /\ ctl_pc' # ctl_pc) =>
              /\ ctl_fault' = "none"
              /\ ctl_pc' = "idle"
              /\ UNCHANGED <<out_id, streams>> ]_vars

\* a recording was started, stopped and handed over, and a second
\* stop_recording has faulted
C39_Witness ==
    /\ ctl_fault = "unwrap_none"
    /\ handed_rec.id # None
    /\ in_id = None

\* an EXPORT received with an export in progress spawns nothing and leaves
\* the receiver, the status and the channels as they are
ExportIgnored ==
    (ui_last'.ev = "EXPORT" /\ encoder_progress # None)
        => UNCHANGED <<encoder_progress, encoding_status, chans, encoders>>

\* a timer tick that leaves a status of Finished or Error clears the marker
TimerClears ==
    (ui_last'.ev = "Timer" /\ encoder_progress # None
        /\ encoding_status' \in {"Finished", "Error"})
        => encoder_progress' = None

\* C35: at most one encoder thread runs at a time; an EXPORT received while
\* an export is in progress starts no thread and changes neither the progress
\* receiver nor the encoding status, and is handled at once whatever the
\* encoder does; the timer tick that reads Finished or Error clears the
\* in-progress marker.
C35_OneExportAtATime ==
    /\ [](Cardinality(encoders) <= 1)
    /\ [](encoder_progress # None => ENABLED CmdExport)
    /\ [][ExportIgnored /\ TimerClears]_vars

\* a second export was accepted after the first was seen to end, and an
\* EXPORT was then received while the second one was encoding
C35_Witness ==
    /\ ui_last.ev = "EXPORT"
    /\ encoder_progress = MaxExports
    /\ encoders = {MaxExports}
    /\ chans[MaxExports] # <<>>

\* the arrow key of the direction a scan goes in
ScanArrow(a) == IF a.arg > 0 THEN "ArrowRight" ELSE "ArrowLeft"

\* a key-down received while scanning: the arrow of the scan's direction
\* changes nothing, any other key leaves the action Idle
ScanKeyDown ==
    (ui_last'.ev = "KeyDown" /\ is_scanning(action))
        => IF ui_last'.what = ScanArrow(action)
             THEN action' = action
             ELSE action' = Idle

\* a key-down that leaves a scan that was not there before was an arrow
\* received in Idle
ScanStart ==
    (ui_last'.ev = "KeyDown" /\ is_scanning(action') /\ action' # action)
        => (is_idle(action) /\ ui_last'.what \in Arrows)

\* C36: while the action is Scanning, a key-down of a key other than the
\* arrow of the scan's direction cancels the scan, a key-down of that arrow
\* leaves the scan and its speed as they are, and neither starts a new scan;
\* an arrow key-down starts a scan only when the action is Idle.
C36_ScanningKeyDown == [][ScanKeyDown /\ ScanStart]_vars

\* the other arrow was pressed during a scan: an arrow key-down has left the
\* action Idle
C36_Witness ==
    /\ ui_last.ev = "KeyDown"
    /\ ui_last.what \in Arrows
    /\ is_idle(action)

\* the commands that start something or move the time
StartCommands == {"PLAY", "DRAW", "TALK", "WARP_TIME_TO"}

\* PLAY, DRAW, TALK and WARP_TIME_TO received in an action other than Idle
\* leave the action and the time as they are
BusyIgnores ==
    (ui_last'.ev \in StartCommands /\ ~is_idle(action))
        => UNCHANGED <<action, now>>

\* a PLAY, DRAW or TALK that changes the action was received in Idle and
\* leaves playback, the wait for the pen or an audio recording from now
IdleStarts ==
    (ui_last'.ev \in StartCommands /\ action' # action)
        => /\ is_idle(action)
           /\ ui_last'.ev = "PLAY" => action' = Playing
           /\ ui_last'.ev = "DRAW" => action'.kind = "WaitingToRecord"
           /\ ui_last'.ev = "TALK" => action' = RecordingAudio(now)
           /\ ui_last'.ev # "WARP_TIME_TO"

\* a WARP_TIME_TO that changes the time was received in Idle
IdleWarps ==
    (ui_last'.ev = "WARP_TIME_TO" /\ now' # now)
        => (is_idle(action) /\ now' = ui_last'.n)

\* STOP received in Idle or Scanning changes nothing
StopIgnored ==
    (ui_last'.ev = "STOP" /\ action.kind \in {"Idle", "Scanning"})
        => UNCHANGED <<action, now, cmd_queue, appvars, encoder_progress,
                       encoding_status, chans, encoders>>

RECURSIVE QueuedAudio(_)
QueuedAudio(q) ==
    IF q = <<>> THEN 0
    ELSE (IF Head(q).cmd = "ADD_AUDIO_SNIPPET" THEN 1 ELSE 0) + QueuedAudio(Tail(q))

\* a STOP received in RecordingAudio submits one ADD_AUDIO_SNIPPET, and
\* nothing else submits one
StopSubmitsOne ==
    /\ (ui_last'.ev = "STOP" /\ action.kind = "RecordingAudio")
          => /\ Len(cmd_queue') = Len(cmd_queue) + 1
             /\ SubSeq(cmd_queue', 1, Len(cmd_queue)) = cmd_queue
             /\ cmd_queue'[Len(cmd_queue')].cmd = "ADD_AUDIO_SNIPPET"
             /\ is_idle(action')
    /\ QueuedAudio(cmd_queue') > QueuedAudio(cmd_queue)
          => (ui_last'.ev = "STOP" /\ action.kind = "RecordingAudio")

\* a handled ADD_AUDIO_SNIPPET takes one id, adds the snippet under it to the
\* entries there were and pushes the catalog on the undo stack; nothing else
\* changes the catalog
AddAddsOne ==
    /\ ui_last'.ev = "ADD_AUDIO_SNIPPET"
          => LET old == Deref(heap, app)
                 new == Deref(heap', app')
             IN  /\ new.last_id = old.last_id + 1
                 /\ new.last_id \notin DOMAIN old.snippets
                 /\ DOMAIN new.snippets = DOMAIN old.snippets \cup {new.last_id}
                 /\ \A id \in DOMAIN old.snippets : new.snippets[id] = old.snippets[id]
                 /\ new.snippets[new.last_id] = Head(cmd_queue).snip
                 /\ undo_pos' = undo_pos + 1
                 /\ Len(undo_stack') = Len(undo_stack) + 1
                 /\ undo_stack'[undo_pos'] = app'
                 /\ QueuedAudio(cmd_queue') = QueuedAudio(cmd_queue) - 1
    /\ app' # app => ui_last'.ev = "ADD_AUDIO_SNIPPET"

\* the n-th audio recording stopped becomes the n-th entry
StoppedGetsAdded ==
    \A n \in 1..MaxSnips :
        (app.last_id + QueuedAudio(cmd_queue) >= n) ~> (app.last_id >= n)

\* C38: every STOP received while the action is RecordingAudio submits exactly
\* one ADD_AUDIO_SNIPPET, and the command, once delivered, adds exactly one
\* entry to the audio catalog under one new id and pushes one undo state,
\* whatever the recording's length, an empty post-processed buffer included.
C38_StopAddsOneSnippet ==
    /\ [][StopSubmitsOne /\ AddAddsOne]_vars
    /\ StoppedGetsAdded

\* a recording that process_audio emptied has become the latest entry
C38_Witness ==
    /\ ui_last.ev = "ADD_AUDIO_SNIPPET"
    /\ app.last_id \in DOMAIN heap[app.snippets]
    /\ heap[app.snippets][app.last_id].buf = <<>>

====
